---- MODULE Spec2Model ----
(***************************************************************************)
(* State-machine model of the HireMeServer chat subsystem:                 *)
(*   - the conversations router (src/routes/stripe.js, lines 523-921),     *)
(*   - the earlier chats router (src/unnamed/part_002, lines 38-160),      *)
(*   - the socket.io layer (src/unnamed/part_000).                         *)
(* Every `await` of a handler is a yield point; the code between two       *)
(* awaits runs atomically on the single JavaScript thread, so each action  *)
(* below is "the awaited store call happens, then the handler runs up to   *)
(* its next await".                                                        *)
(***************************************************************************)
EXTENDS Naturals, Sequences, FiniteSets, TLC

\* ---------------------------------------------------------------- bounds
MaxReq == 2      \* HTTP requests handled in one behaviour
MaxSock == 2     \* socket connections attempted in one behaviour
MaxClock == 1    \* largest value Date.now() returns
MaxFail == 1     \* store calls that reject in one behaviour
MaxFanOut == 1   \* sends dispatched while connections come and go
MaxLate == 1     \* further requests (message lists, later calls) in one behaviour

Req == 1..MaxReq
Late == (MaxReq + 1)..(MaxReq + MaxLate)
AllReq == Req \cup Late
Sock == 1..MaxSock

\* ------------------------------------------------------- the users table
\* Rows of the relational `users` table (firebase_uid -> id); no route under
\* src/ inserts into it, so it is fixed. "u3" has no account; "u4" has one
\* and takes part in no conversation of u1 and u2.
Registered == {"u1", "u2", "u4"}

UserId(uid) ==
    IF uid = "u1" THEN 10 ELSE IF uid = "u2" THEN 20 ELSE IF uid = "u4" THEN 40 ELSE 0

UidOfId(id) ==
    IF id = 10 THEN "u1" ELSE IF id = 20 THEN "u2" ELSE IF id = 40 THEN "u4" ELSE ""

\* String.prototype.trim on the message texts the model sends.
Trim(c) == IF c = " " THEN "" ELSE IF c = " hi " THEN "hi" ELSE c

\* admin.auth().verifyIdToken: the subject of a valid token, "" when it throws.
VerifyIdToken(token) ==
    IF token = "tok_u1" THEN "u1" ELSE IF token = "tok_u2" THEN "u2"
    ELSE IF token = "tok_u4" THEN "u4" ELSE ""

VARIABLES
    conversations,  \* relational table conversations: Seq of [id, user_a, user_b]
    chats,          \* relational table chats (earlier router): Seq of [id, user1_uid, user2_uid]
    pgMessages,     \* relational table messages (earlier router)
    fbMessages,     \* realtime store messages/<chatId>: chatId -> Seq of pushed children
    unread,         \* realtime store unread/<uid>/<chatId>: <<uid, chatId>> -> Nat
    notifications,  \* realtime store notifications/<uid>: uid -> Seq
    io,             \* the module-level `io` of the socket layer is set
    sockets,        \* socket connections
    req,            \* request handlers and their positions
    now,            \* the wall clock read by Date.now()
    epoch,          \* history: per unread key, resets completed and the epoch
                    \* the stored value was computed in
    hires,          \* relational table hires: id -> [hired_by_id, payment_intent_id, paid]
    intents,        \* the payment provider's payment intents: Seq of [status, captures, refunded]
    pay             \* handlers of the payment routes and their positions

vars == <<conversations, chats, pgMessages, fbMessages, unread, notifications,
          io, sockets, req, now, epoch, hires, intents, pay>>

money == <<hires, intents, pay>>

stores == <<conversations, chats, pgMessages, fbMessages, unread, notifications>>

\* ----------------------------------------------------------- the records
IdleReq ==
    [op |-> "none", pc |-> "idle", uid |-> "", other |-> "", content |-> "",
     chatId |-> 0, ts |-> 0, cur |-> 0, msgKey |-> 0, status |-> 0,
     failedAt |-> "", readEpoch |-> 0, wrote |-> FALSE, emitted |-> FALSE,
     body |-> {}, result |-> <<>>, after |-> {}]

\* joined is history: the conversation ids the client asked to join and has
\* not asked to leave since.
NewSock ==
    [st |-> "new", token |-> "", userId |-> "", rooms |-> {}, inbox |-> <<>>,
     joined |-> {}]

Event(type, conv, key, who) ==
    [type |-> type, conversationId |-> conv, id |-> key, from |-> who]

\* ------------------------------------------------------- store operations
\* snapshot.val() of messages/<c>: the children pushed so far.
Log(c) == IF c \in DOMAIN fbMessages THEN fbMessages[c] ELSE <<>>

\* Push keys are unique and chronological: the number of children pushed so
\* far in the whole store, plus one.
RECURSIVE SumLen(_, _)
SumLen(f, S) ==
    IF S = {} THEN 0
    ELSE LET c == CHOOSE x \in S : TRUE IN Len(f[c]) + SumLen(f, S \ {c})

NextPushKey == SumLen(fbMessages, DOMAIN fbMessages) + 1

\* Mutant: the message is written with set(), over what the log held.
PushMessageOverwrites(c, m) ==
    [k \in DOMAIN fbMessages \cup {c} |->
        IF k = c THEN <<m>> ELSE fbMessages[k]]

\* db.ref(`messages/${c}`).push(m)
PushMessage(c, m) ==
    IF c \in DOMAIN fbMessages
    THEN [fbMessages EXCEPT ![c] = Append(@, m)]
    ELSE [k \in DOMAIN fbMessages \cup {c} |->
            IF k = c THEN <<m>> ELSE fbMessages[k]]

\* unreadSnapshot.val() || 0
UnreadVal(k) == IF k \in DOMAIN unread THEN unread[k] ELSE 0

\* unreadRef.set(v)
UnreadSet(k, v) ==
    [x \in DOMAIN unread \cup {k} |-> IF x = k THEN v ELSE unread[x]]

\* History of the unread keys: resets completed, epoch of the stored value.
EpochOf(k) == IF k \in DOMAIN epoch THEN epoch[k] ELSE [resets |-> 0, written |-> 0]

EpochSet(k, e) ==
    [x \in DOMAIN epoch \cup {k} |-> IF x = k THEN e ELSE epoch[x]]

\* SELECT * FROM conversations WHERE (user_a=$1 AND user_b=$2) OR (user_a=$2 AND user_b=$1)
ConvRows(a, b) ==
    {i \in 1..Len(conversations) :
        \/ conversations[i].user_a = a /\ conversations[i].user_b = b
        \/ conversations[i].user_a = b /\ conversations[i].user_b = a}

\* INSERT INTO conversations (user_a, user_b) VALUES ($1,$2) RETURNING *
InsertConversation(a, b) ==
    Append(conversations,
           [id |-> Len(conversations) + 1, user_a |-> a, user_b |-> b])

\* SELECT id, firebase_uid FROM users WHERE firebase_uid = ANY($1::text[])
UsersRows(uids) == uids \cap Registered

\* ------------------------------------------------------- the socket layer
\* io.to(room).emit(ev): every connected socket that is in the room gets it.
EmitTo(socks, room, ev) ==
    [s \in DOMAIN socks |->
        IF socks[s].st = "open" /\ room \in socks[s].rooms
        THEN [socks[s] EXCEPT !.inbox = Append(@, ev)]
        ELSE socks[s]]

\* Mutant: io.emit, the emitting socket gets the event as well.
BroadcastIncludesSelf(socks, me, ev) ==
    [s \in DOMAIN socks |->
        IF socks[s].st = "open"
        THEN [socks[s] EXCEPT !.inbox = Append(@, ev)]
        ELSE socks[s]]

\* socket.broadcast.emit(ev): every connected socket but the emitting one.
BroadcastFrom(socks, me, ev) ==
    [s \in DOMAIN socks |->
        IF s # me /\ socks[s].st = "open"
        THEN [socks[s] EXCEPT !.inbox = Append(@, ev)]
        ELSE socks[s]]

\* getIO(): throws unless initSocket has run.
GetIOThrows == ~io

\* A handler of the payment routes: hireId and uid of the request, the
\* payment_intent_id read from the hire or returned by the provider, the
\* response (status, and the intent whose client secret it carries). History:
\* called (the handler invoked a create, capture or refund at the provider)
\* and order (the position of the response among the responses sent).
IdlePay ==
    [op |-> "none", pc |-> "idle", uid |-> "", hireId |-> 0, intent |-> 0,
     status |-> 0, secret |-> 0, called |-> FALSE, order |-> 0]

\* The hires table has one row, hire 1 made by u1 (users.id 10) of a
\* freelancer; no route under src/ inserts into it.
InitMoney ==
    /\ hires = [h \in {1} |->
                  [hired_by_id |-> 10, payment_intent_id |-> 0, paid |-> FALSE]]
    /\ intents = <<>>
    /\ pay = [r \in Req |-> IdlePay]

Init ==
    /\ InitMoney
    /\ conversations = <<>>
    /\ chats = <<>>
    /\ pgMessages = <<>>
    /\ fbMessages = <<>>
    /\ unread = <<>>
    /\ notifications = <<>>
    /\ io = FALSE
    /\ sockets = [s \in Sock |-> NewSock]
    /\ req = [r \in AllReq |-> IdleReq]
    /\ now = 0
    /\ epoch = <<>>

\* The wall clock moves on between two steps of the handlers.
Tick ==
    /\ now < MaxClock
    /\ now' = now + 1
    /\ UNCHANGED <<money, stores, io, sockets, req, epoch>>

\* Requests are numbered in arrival order, the further ones among themselves.
CanArrive(r) ==
    /\ req[r].pc = "idle"
    /\ \A q \in AllReq : (q < r /\ (q \in Req <=> r \in Req)) => req[q].pc # "idle"

\* History: the requests (of the first MaxReq) that had returned when this
\* one arrived.
Arrived(rec) == [rec EXCEPT !.after = {q \in Req : req[q].pc = "done"}]

\* The fields of the JSON body of a 200 response whose shape is fixed.
OkBody(op) ==
    IF op = "start" THEN {"conversation_id", "other_user", "created_at"}
    ELSE IF op \in {"read", "oldRead", "typing"} THEN {"success"}
    ELSE IF op = "oldSend" THEN {"id", "chat_id", "sender_uid", "content", "created_at"}
    ELSE {}

\* res.status(code).json({ message }), with error: err.message in the catch
\* of the two send routes.
ErrorBody(op, code) ==
    IF code = 500 /\ op \in {"send", "oldSend"}
    THEN {"message", "error"} ELSE {"message"}

\* The handler returns: its locals are gone, the response stays.
Reply(rec, code) ==
    [rec EXCEPT !.pc = "done", !.status = code, !.ts = 0, !.cur = 0,
                !.readEpoch = 0,
                !.body = IF code = 200 THEN OkBody(rec.op)
                         ELSE ErrorBody(rec.op, code)]

\* ------------------------------------------------ POST /send (conversations)
\* The pending store calls that sit inside a handler's try block.
AwaitingPcs ==
    {"users", "findConv", "insertConv", "push", "unreadRead", "unreadSet",
     "findChat", "insertChat", "insertMsg", "notify",
     "startUsers", "startFind", "startInsert", "startOther",
     "readSet", "readUser", "readConv", "readOther",
     "listUser", "listConv", "listRead", "oldListQuery",
     "typingUser", "typingConv", "typingOther"}

\* Mutant: a rejected push is caught on the spot and the handler carries on.
OnStoreErrorSwallowsPush(rec) ==
    IF rec.pc = "push"
    THEN [rec EXCEPT !.failedAt = "push", !.pc = "unreadRead"]
    ELSE [Reply(rec, 500) EXCEPT !.failedAt = rec.pc]

\* catch (err) { res.status(500) }: the awaited call rejected, nothing was written.
OnStoreError(rec) == [Reply(rec, 500) EXCEPT !.failedAt = rec.pc]

StoreFails(r) ==
    /\ req[r].pc \in AwaitingPcs
    /\ Cardinality({q \in AllReq : req[q].failedAt # ""}) < MaxFail
    /\ req' = [req EXCEPT ![r] = OnStoreError(req[r])]
    /\ UNCHANGED <<money, stores, io, sockets, now, epoch>>

\* if (!content || !content.trim()) return 400
SendRejectsContent(content) == content = "" \/ Trim(content) = ""

\* const timestamp = Date.now(); firebaseMessage = {...}; then the push is issued.
ToPush(rec, chat, t) == [rec EXCEPT !.chatId = chat, !.ts = t, !.pc = "push"]

SendRequest(r, s, t, content, cid) ==
    /\ CanArrive(r)
    /\ LET rec == Arrived([IdleReq EXCEPT !.op = "send", !.uid = s, !.other = t,
                                          !.content = content, !.chatId = cid])
       IN req' = [req EXCEPT ![r] =
                    IF SendRejectsContent(content) THEN Reply(rec, 400)
                    ELSE [rec EXCEPT !.pc = "users"]]
    /\ UNCHANGED <<money, stores, io, sockets, now, epoch>>

SendUsers(r) ==
    /\ req[r].op = "send" /\ req[r].pc = "users"
    /\ LET rec == req[r]
           rows == UsersRows({rec.uid, rec.other})
       IN IF Cardinality(rows) # 2
          THEN req' = [req EXCEPT ![r] = Reply(rec, 404)]
          ELSE IF rec.chatId = 0
          THEN req' = [req EXCEPT ![r].pc = "findConv"]
          ELSE req' = [req EXCEPT ![r] = ToPush(rec, rec.chatId, now)]
    /\ UNCHANGED <<money, stores, io, sockets, now, epoch>>

SendFindConv(r) ==
    /\ req[r].op = "send" /\ req[r].pc = "findConv"
    /\ LET rec == req[r]
           rows == ConvRows(UserId(rec.uid), UserId(rec.other))
       IN IF rows = {}
          THEN req' = [req EXCEPT ![r].pc = "insertConv"]
          ELSE \E i \in rows :
                  req' = [req EXCEPT ![r] = ToPush(rec, conversations[i].id, now)]
    /\ UNCHANGED <<money, stores, io, sockets, now, epoch>>

SendInsertConv(r) ==
    /\ req[r].op = "send" /\ req[r].pc = "insertConv"
    /\ conversations' = InsertConversation(UserId(req[r].uid), UserId(req[r].other))
    /\ req' = [req EXCEPT ![r] = ToPush(req[r], Len(conversations) + 1, now)]
    /\ UNCHANGED <<money, chats, pgMessages, fbMessages, unread, notifications,
                   io, sockets, now, epoch>>

\* The child written by db.ref(`messages/${chatId}`).push(firebaseMessage).
SendMessage(rec, key) ==
    [key |-> key, id |-> 0, senderUid |-> rec.uid, content |-> Trim(rec.content),
     createdAt |-> rec.ts, timestamp |-> rec.ts]

OldSendMessage(rec, key) ==
    [key |-> key, id |-> Len(pgMessages), senderUid |-> rec.uid,
     content |-> rec.content, createdAt |-> rec.ts, timestamp |-> rec.ts]

SendPush(r) ==
    /\ req[r].pc = "push"
    /\ LET rec == req[r]
           key == NextPushKey
           m == IF rec.op = "send" THEN SendMessage(rec, key)
                ELSE OldSendMessage(rec, key)
       IN /\ fbMessages' = PushMessage(rec.chatId, m)
          /\ req' = [req EXCEPT ![r].msgKey = key, ![r].pc = "unreadRead"]
    /\ UNCHANGED <<money, conversations, chats, pgMessages, unread, notifications,
                   io, sockets, now, epoch>>

\* const currentUnread = (await unreadRef.once("value")).val() || 0
SendUnreadRead(r) ==
    /\ req[r].pc = "unreadRead"
    /\ LET k == <<req[r].other, req[r].chatId>>
       IN req' = [req EXCEPT ![r].cur = UnreadVal(k),
                             ![r].readEpoch = EpochOf(k).resets,
                             ![r].pc = "unreadSet"]
    /\ UNCHANGED <<money, stores, io, sockets, now, epoch>>

\* Mutant: the badge is raised by two.
IncrementedTwice(cur) == cur + 2

\* currentUnread + 1
Incremented(cur) == cur + 1

\* Mutant: the events go to the room of the conversation.
SendDispatchToConversation(socks, rec) ==
    EmitTo(EmitTo(socks, "conversation_" \o ToString(rec.chatId),
                  Event("new_message", rec.chatId, rec.msgKey, rec.uid)),
           "conversation_" \o ToString(rec.chatId),
           Event("notification", rec.chatId, 0, rec.uid))

\* The two io.to(receiverUid).emit calls of the try block.
SendDispatch(socks, rec) ==
    EmitTo(EmitTo(socks, rec.other,
                  Event("new_message", rec.chatId, rec.msgKey, rec.uid)),
           rec.other, Event("notification", rec.chatId, 0, rec.uid))

\* Mutant: the response reports whether a device of the receiver was reached.
SendBodyReportsDelivery(rec, socks) ==
    {"success", "messageId", "conversationId"} \cup
    (IF \E s \in DOMAIN socks : socks[s].st = "open" /\ rec.other \in socks[s].rooms
     THEN {"delivered"} ELSE {})

\* res.json({ success: true, messageId, conversationId: chatId })
SendBody(rec, socks) == {"success", "messageId", "conversationId"}

\* Mutant: the emit is not guarded, getIO's error reaches the outer catch.
SendStatusEmitErrorEscapes(threw) == IF threw THEN 500 ELSE 200

\* try { getIO()... } catch (socketErr) { /* continue */ }; res.json({success: true})
SendStatusAfterEmit(threw) == 200

SendUnreadSet(r) ==
    /\ req[r].pc = "unreadSet"
    /\ LET rec == req[r]
           k == <<rec.other, rec.chatId>>
       IN /\ unread' = UnreadSet(k, Incremented(rec.cur))
          /\ epoch' = EpochSet(k, [EpochOf(k) EXCEPT !.written = rec.readEpoch])
          /\ IF rec.op = "send"
             THEN /\ sockets' = IF GetIOThrows THEN sockets
                                ELSE SendDispatch(sockets, rec)
                  /\ req' = [req EXCEPT ![r] =
                               [Reply(rec, SendStatusAfterEmit(GetIOThrows))
                                  EXCEPT !.wrote = TRUE, !.emitted = ~GetIOThrows,
                                         !.body = SendBody(rec, sockets)]]
             ELSE /\ sockets' = sockets
                  /\ req' = [req EXCEPT ![r].wrote = TRUE, ![r].pc = "notify"]
    /\ UNCHANGED <<money, conversations, chats, pgMessages, fbMessages, notifications,
                   io, now>>

\* ----------------------------------------------------- POST /send (chats)
\* SELECT * FROM chats WHERE (user1_uid=$1 AND user2_uid=$2) OR (user1_uid=$2 AND user2_uid=$1)
ChatRows(a, b) ==
    {i \in 1..Len(chats) :
        \/ chats[i].user1_uid = a /\ chats[i].user2_uid = b
        \/ chats[i].user1_uid = b /\ chats[i].user2_uid = a}

\* if (!content) return 400
OldSendRejectsContent(content) == content = ""

OldSendRequest(r, s, t, content) ==
    /\ CanArrive(r)
    /\ LET rec == Arrived([IdleReq EXCEPT !.op = "oldSend", !.uid = s, !.other = t,
                                          !.content = content])
       IN req' = [req EXCEPT ![r] =
                    IF OldSendRejectsContent(content) THEN Reply(rec, 400)
                    ELSE [rec EXCEPT !.pc = "findChat"]]
    /\ UNCHANGED <<money, stores, io, sockets, now, epoch>>

OldSendFindChat(r) ==
    /\ req[r].op = "oldSend" /\ req[r].pc = "findChat"
    /\ LET rows == ChatRows(req[r].uid, req[r].other)
       IN IF rows = {}
          THEN req' = [req EXCEPT ![r].pc = "insertChat"]
          ELSE \E i \in rows :
                  req' = [req EXCEPT ![r].chatId = chats[i].id,
                                     ![r].pc = "insertMsg"]
    /\ UNCHANGED <<money, stores, io, sockets, now, epoch>>

OldSendInsertChat(r) ==
    /\ req[r].op = "oldSend" /\ req[r].pc = "insertChat"
    /\ chats' = Append(chats, [id |-> Len(chats) + 1, user1_uid |-> req[r].uid,
                               user2_uid |-> req[r].other])
    /\ req' = [req EXCEPT ![r].chatId = Len(chats) + 1, ![r].pc = "insertMsg"]
    /\ UNCHANGED <<money, conversations, pgMessages, fbMessages, unread, notifications,
                   io, sockets, now, epoch>>

\* INSERT INTO messages ... RETURNING *; then firebaseMessage is built with
\* message.created_at and Date.now().
OldSendInsertMsg(r) ==
    /\ req[r].op = "oldSend" /\ req[r].pc = "insertMsg"
    /\ pgMessages' = Append(pgMessages,
           [id |-> Len(pgMessages) + 1, chat_id |-> req[r].chatId,
            sender_uid |-> req[r].uid, content |-> req[r].content,
            created_at |-> now])
    /\ req' = [req EXCEPT ![r] = ToPush(req[r], req[r].chatId, now)]
    /\ UNCHANGED <<money, conversations, chats, fbMessages, unread, notifications,
                   io, sockets, now, epoch>>

\* db.ref(`notifications/${receiverUid}`).push({...}); res.json(message)
NotificationsOf(u) == IF u \in DOMAIN notifications THEN notifications[u] ELSE <<>>

OldSendNotify(r) ==
    /\ req[r].op = "oldSend" /\ req[r].pc = "notify"
    /\ LET rec == req[r]
           n == [type |-> "new_message", chatId |-> rec.chatId,
                 senderUid |-> rec.uid, content |-> rec.content, read |-> FALSE]
       IN /\ notifications' =
                [u \in DOMAIN notifications \cup {rec.other} |->
                    IF u = rec.other THEN Append(NotificationsOf(u), n)
                    ELSE notifications[u]]
          /\ req' = [req EXCEPT ![r] = Reply(rec, 200)]
    /\ UNCHANGED <<money, conversations, chats, pgMessages, fbMessages, unread,
                   io, sockets, now, epoch>>

\* ------------------------------------------------------------ POST /start
StartRequest(r, uid, other) ==
    /\ CanArrive(r)
    /\ LET rec == Arrived([IdleReq EXCEPT !.op = "start", !.uid = uid,
                                          !.other = other])
       IN req' = [req EXCEPT ![r] =
                    IF other = "" \/ uid = other THEN Reply(rec, 400)
                    ELSE [rec EXCEPT !.pc = "startUsers"]]
    /\ UNCHANGED <<money, stores, io, sockets, now, epoch>>

StartUsers(r) ==
    /\ req[r].pc = "startUsers"
    /\ req' = [req EXCEPT ![r] =
                 IF Cardinality(UsersRows({req[r].uid, req[r].other})) # 2
                 THEN Reply(req[r], 404)
                 ELSE [req[r] EXCEPT !.pc = "startFind"]]
    /\ UNCHANGED <<money, stores, io, sockets, now, epoch>>

StartFind(r) ==
    /\ req[r].pc = "startFind"
    /\ LET rows == ConvRows(UserId(req[r].uid), UserId(req[r].other))
       IN IF rows = {}
          THEN req' = [req EXCEPT ![r].pc = "startInsert"]
          ELSE \E i \in rows :
                  req' = [req EXCEPT ![r].chatId = conversations[i].id,
                                     ![r].pc = "startOther"]
    /\ UNCHANGED <<money, stores, io, sockets, now, epoch>>

StartInsert(r) ==
    /\ req[r].pc = "startInsert"
    /\ conversations' = InsertConversation(UserId(req[r].uid), UserId(req[r].other))
    /\ req' = [req EXCEPT ![r].chatId = Len(conversations) + 1,
                          ![r].pc = "startOther"]
    /\ UNCHANGED <<money, chats, pgMessages, fbMessages, unread, notifications,
                   io, sockets, now, epoch>>

\* SELECT ... FROM users WHERE id = $1; res.json({conversation_id, ...})
StartOther(r) ==
    /\ req[r].pc = "startOther"
    /\ req' = [req EXCEPT ![r] = Reply(req[r], 200)]
    /\ UNCHANGED <<money, stores, io, sockets, now, epoch>>

\* ------------------------------------------------------ POST /:chatId/read
ReadRequest(r, uid, cid) ==
    /\ CanArrive(r)
    /\ req' = [req EXCEPT ![r] =
                 Arrived([IdleReq EXCEPT !.op = "read", !.uid = uid,
                                         !.chatId = cid, !.pc = "readSet"])]
    /\ UNCHANGED <<money, stores, io, sockets, now, epoch>>

\* The earlier router's /:chatId/read: the set(0) and the reply, nothing else.
OldReadRequest(r, uid, cid) ==
    /\ CanArrive(r)
    /\ req' = [req EXCEPT ![r] =
                 Arrived([IdleReq EXCEPT !.op = "oldRead", !.uid = uid,
                                         !.chatId = cid, !.pc = "readSet"])]
    /\ UNCHANGED <<money, stores, io, sockets, now, epoch>>

\* Mutant: a counter that is already zero is not acknowledged.
ReadSetRefusesZero(r) ==
    /\ req[r].pc = "readSet"
    /\ LET rec == req[r]
           k == <<rec.uid, rec.chatId>>
           n == EpochOf(k).resets + 1
       IN IF UnreadVal(k) = 0
          THEN /\ req' = [req EXCEPT ![r] = Reply(rec, 404)]
               /\ UNCHANGED <<money, unread, epoch>>
          ELSE /\ unread' = UnreadSet(k, 0)
               /\ epoch' = EpochSet(k, [resets |-> n, written |-> n])
               /\ req' = [req EXCEPT ![r] =
                            IF rec.op = "oldRead" THEN Reply(rec, 200)
                            ELSE [rec EXCEPT !.pc = "readUser"]]
    /\ UNCHANGED <<money, conversations, chats, pgMessages, fbMessages, notifications,
                   io, sockets, now>>

\* db.ref(`unread/${uid}/${chatId}`).set(0)
ReadSet(r) ==
    /\ req[r].pc = "readSet"
    /\ LET rec == req[r]
           k == <<rec.uid, rec.chatId>>
           n == EpochOf(k).resets + 1
       IN /\ unread' = UnreadSet(k, 0)
          /\ epoch' = EpochSet(k, [resets |-> n, written |-> n])
          /\ req' = [req EXCEPT ![r] =
                       IF rec.op = "oldRead" THEN Reply(rec, 200)
                       ELSE [rec EXCEPT !.pc = "readUser"]]
    /\ UNCHANGED <<money, conversations, chats, pgMessages, fbMessages, notifications,
                   io, sockets, now>>

ReadUser(r) ==
    /\ req[r].pc = "readUser"
    /\ req' = [req EXCEPT ![r] =
                 IF req[r].uid \in Registered
                 THEN [req[r] EXCEPT !.pc = "readConv"]
                 ELSE Reply(req[r], 200)]
    /\ UNCHANGED <<money, stores, io, sockets, now, epoch>>

\* conv.user_a === userId ? conv.user_b : conv.user_a
OtherUserId(conv, userId) == IF conv.user_a = userId THEN conv.user_b ELSE conv.user_a

ReadConv(r) ==
    /\ req[r].pc = "readConv"
    /\ LET rec == req[r]
       IN req' = [req EXCEPT ![r] =
                    IF rec.chatId \in 1..Len(conversations)
                    THEN [rec EXCEPT
                            !.other = UidOfId(OtherUserId(conversations[rec.chatId],
                                                          UserId(rec.uid))),
                            !.pc = "readOther"]
                    ELSE Reply(rec, 200)]
    /\ UNCHANGED <<money, stores, io, sockets, now, epoch>>

ReadOther(r) ==
    /\ req[r].pc = "readOther"
    /\ LET rec == req[r]
           sent == rec.other \in Registered /\ ~GetIOThrows
       IN /\ sockets' = IF sent
                        THEN EmitTo(sockets, rec.other,
                                    Event("messages_seen", rec.chatId, 0, rec.uid))
                        ELSE sockets
          /\ req' = [req EXCEPT ![r] = [Reply(rec, 200) EXCEPT !.emitted = sent]]
    /\ UNCHANGED <<money, stores, io, now, epoch>>

\* ------------------------------------- GET /:chatId/messages (conversations)
ListRequest(r, uid, cid) ==
    /\ CanArrive(r)
    /\ req' = [req EXCEPT ![r] =
                 Arrived([IdleReq EXCEPT !.op = "list", !.uid = uid,
                                         !.chatId = cid, !.pc = "listUser"])]
    /\ UNCHANGED <<money, stores, io, sockets, now, epoch>>

\* SELECT id FROM users WHERE firebase_uid = $1; 404 when there is no row.
ListUser(r) ==
    /\ req[r].pc = "listUser"
    /\ req' = [req EXCEPT ![r] =
                 IF UsersRows({req[r].uid}) = {} THEN Reply(req[r], 404)
                 ELSE [req[r] EXCEPT !.pc = "listConv"]]
    /\ UNCHANGED <<money, stores, io, sockets, now, epoch>>

\* SELECT * FROM conversations WHERE id = $1 AND (user_a = $2 OR user_b = $2)
ConvRowsOf(cid, userId) ==
    {i \in 1..Len(conversations) :
        /\ conversations[i].id = cid
        /\ conversations[i].user_a = userId \/ conversations[i].user_b = userId}

ListConv(r) ==
    /\ req[r].pc = "listConv"
    /\ req' = [req EXCEPT ![r] =
                 IF ConvRowsOf(req[r].chatId, UserId(req[r].uid)) = {}
                 THEN Reply(req[r], 403)
                 ELSE [req[r] EXCEPT !.pc = "listRead"]]
    /\ UNCHANGED <<money, stores, io, sockets, now, epoch>>

\* Object.entries(messagesData).map(([key, msg]) => ({...})): the children in
\* key order, which is the order they were pushed in.
MessageEntries(log) ==
    [i \in 1..Len(log) |->
        [id |-> log[i].key, sender_uid |-> log[i].senderUid,
         content |-> log[i].content, created_at |-> log[i].createdAt,
         timestamp |-> log[i].timestamp]]

\* Mutant: the sort is not stable, equal timestamps come out reversed.
InsertByTimestampUnstable(sorted, m) ==
    LET k == Cardinality({i \in 1..Len(sorted) : sorted[i].timestamp < m.timestamp})
    IN SubSeq(sorted, 1, k) \o <<m>> \o SubSeq(sorted, k + 1, Len(sorted))

\* Array.prototype.sort with (a, b) => a.timestamp - b.timestamp is stable:
\* an element goes behind every element whose timestamp is not larger.
InsertByTimestamp(sorted, m) ==
    LET k == Cardinality({i \in 1..Len(sorted) : sorted[i].timestamp <= m.timestamp})
    IN SubSeq(sorted, 1, k) \o <<m>> \o SubSeq(sorted, k + 1, Len(sorted))

RECURSIVE SortByTimestamp(_)
SortByTimestamp(ms) ==
    IF ms = <<>> THEN <<>>
    ELSE InsertByTimestamp(SortByTimestamp(SubSeq(ms, 1, Len(ms) - 1)), ms[Len(ms)])

\* Mutant: the entries are returned as the store holds them, unsorted.
ListedMessagesUnsorted(log) == MessageEntries(log)

\* messages = Object.entries(...).map(...).sort(...)
ListedMessages(log) == SortByTimestamp(MessageEntries(log))

\* db.ref(`messages/${chatId}`).once('value'); res.json(messages)
ListRead(r) ==
    /\ req[r].pc = "listRead"
    /\ req' = [req EXCEPT ![r] =
                 [Reply(req[r], 200) EXCEPT !.result = ListedMessages(Log(req[r].chatId))]]
    /\ UNCHANGED <<money, stores, io, sockets, now, epoch>>

\* ------------------------------------------- GET /:chatId/messages (chats)
OldListRequest(r, uid, cid) ==
    /\ CanArrive(r)
    /\ req' = [req EXCEPT ![r] =
                 Arrived([IdleReq EXCEPT !.op = "oldList", !.uid = uid,
                                         !.chatId = cid, !.pc = "oldListQuery"])]
    /\ UNCHANGED <<money, stores, io, sockets, now, epoch>>

\* SELECT ... FROM messages WHERE chat_id = $1 ORDER BY created_at ASC: the
\* matching rows in any order that is non-decreasing in created_at.
MessageRowsOrdered(cid) ==
    LET rows == {i \in 1..Len(pgMessages) : pgMessages[i].chat_id = cid}
        n == Cardinality(rows)
    IN {[k \in 1..n |-> pgMessages[f[k]]] :
          f \in {g \in [1..n -> rows] :
                    /\ \A a, b \in 1..n : a # b => g[a] # g[b]
                    /\ \A a, b \in 1..n :
                          a < b => pgMessages[g[a]].created_at <= pgMessages[g[b]].created_at}}

\* res.json(messagesRes.rows || []): no look at who is asking.
OldListQuery(r) ==
    /\ req[r].pc = "oldListQuery"
    /\ \E rows \in MessageRowsOrdered(req[r].chatId) :
          req' = [req EXCEPT ![r] = [Reply(req[r], 200) EXCEPT !.result = rows]]
    /\ UNCHANGED <<money, stores, io, sockets, now, epoch>>

\* ---------------------------------------------------- POST /:chatId/typing
TypingRequest(r, uid, cid) ==
    /\ CanArrive(r)
    /\ req' = [req EXCEPT ![r] =
                 Arrived([IdleReq EXCEPT !.op = "typing", !.uid = uid,
                                         !.chatId = cid, !.pc = "typingUser"])]
    /\ UNCHANGED <<money, stores, io, sockets, now, epoch>>

\* SELECT id FROM users WHERE firebase_uid = $1
TypingUser(r) ==
    /\ req[r].pc = "typingUser"
    /\ req' = [req EXCEPT ![r] =
                 IF req[r].uid \in Registered
                 THEN [req[r] EXCEPT !.pc = "typingConv"]
                 ELSE Reply(req[r], 200)]
    /\ UNCHANGED <<money, stores, io, sockets, now, epoch>>

\* SELECT user_a, user_b FROM conversations WHERE id = $1
TypingConv(r) ==
    /\ req[r].pc = "typingConv"
    /\ LET rec == req[r]
       IN req' = [req EXCEPT ![r] =
                    IF rec.chatId \in 1..Len(conversations)
                    THEN [rec EXCEPT
                            !.other = UidOfId(OtherUserId(conversations[rec.chatId],
                                                          UserId(rec.uid))),
                            !.pc = "typingOther"]
                    ELSE Reply(rec, 200)]
    /\ UNCHANGED <<money, stores, io, sockets, now, epoch>>

\* SELECT firebase_uid FROM users WHERE id = $1; io.to(uid).emit("user_typing")
TypingOther(r) ==
    /\ req[r].pc = "typingOther"
    /\ LET rec == req[r]
           sent == rec.other \in Registered /\ ~GetIOThrows
       IN /\ sockets' = IF sent
                        THEN EmitTo(sockets, rec.other,
                                    Event("user_typing", rec.chatId, 0, rec.uid))
                        ELSE sockets
          /\ req' = [req EXCEPT ![r] = [Reply(rec, 200) EXCEPT !.emitted = sent]]
    /\ UNCHANGED <<money, stores, io, now, epoch>>

\* ------------------------------------------------------ the payment routes
chat == <<stores, io, sockets, req, now, epoch>>

\* The payment provider: a new intent awaits a payment method.
CreatedIntents ==
    Append(intents, [status |-> "requires_payment_method", captures |-> 0,
                     refunded |-> FALSE])

\* existingIntent.status === 'requires_payment_method' ||
\* existingIntent.status === 'requires_confirmation'
Reusable(status) == status \in {"requires_payment_method", "requires_confirmation"}

\* The provider captures an intent whose funds are held and refuses any other.
CanCapture(i) == i \in 1..Len(intents) /\ intents[i].status = "requires_capture"

\* The provider refunds a captured intent once.
CanRefund(i) ==
    i \in 1..Len(intents) /\ intents[i].status = "succeeded" /\ ~intents[i].refunded

\* hire.stripe_account_id of the freelancer of the hire.
StripeAccountOf(h) == "acct_freelancer"

\* Responses are numbered in the order they are sent.
PayReply(rec, code, secret) ==
    [rec EXCEPT !.pc = "done", !.status = code, !.secret = secret,
                !.order = Cardinality({q \in Req : pay[q].pc = "done"}) + 1]

PayCanArrive(r) ==
    /\ pay[r].pc = "idle"
    /\ \A q \in Req : q < r => pay[q].pc # "idle"

\* POST /create-intent/:hireId, /capture/:hireId, /refund/:hireId arrive;
\* "oldCreate" is create-intent of the router without reuse.
PayRequest(r, op, uid, h) ==
    /\ PayCanArrive(r)
    /\ pay' = [pay EXCEPT ![r] =
                 [IdlePay EXCEPT !.op = op, !.uid = uid, !.hireId = h, !.pc = "payUser"]]
    /\ UNCHANGED <<chat, hires, intents>>

\* SELECT id FROM users WHERE firebase_uid = $1; 404 "User not found"
PayUser(r) ==
    /\ pay[r].pc = "payUser"
    /\ pay' = [pay EXCEPT ![r] =
                 IF UsersRows({pay[r].uid}) = {} THEN PayReply(pay[r], 404, 0)
                 ELSE [pay[r] EXCEPT !.pc = "payHire"]]
    /\ UNCHANGED <<chat, hires, intents>>

\* Mutant: the check of who made the hire is left out.
PayForbiddenNever(rec) == FALSE

\* if (hire.hired_by_id !== userId) return 403
PayForbidden(rec) == hires[rec.hireId].hired_by_id # UserId(rec.uid)

\* capture: if (!hire.payment_intent_id) return 400; if (hire.paid) return 400
CaptureRejects(hire) ==
    IF hire.payment_intent_id = 0 THEN 400 ELSE IF hire.paid THEN 400 ELSE 0

\* SELECT ... FROM hires h WHERE h.id = $1 and the checks that follow it.
PayHire(r) ==
    /\ pay[r].pc = "payHire"
    /\ LET rec == pay[r]
           hire == hires[rec.hireId]
       IN pay' = [pay EXCEPT ![r] =
            IF rec.hireId \notin DOMAIN hires THEN PayReply(rec, 404, 0)
            ELSE IF PayForbidden(rec) THEN PayReply(rec, 403, 0)
            ELSE IF rec.op \in {"create", "oldCreate"}
            THEN IF StripeAccountOf(rec.hireId) = "" THEN PayReply(rec, 400, 0)
                 ELSE IF rec.op = "create" /\ hire.payment_intent_id # 0
                 THEN [rec EXCEPT !.intent = hire.payment_intent_id, !.pc = "retrieve"]
                 ELSE [rec EXCEPT !.pc = "createIntent"]
            ELSE IF rec.op = "capture"
            THEN IF CaptureRejects(hire) # 0 THEN PayReply(rec, CaptureRejects(hire), 0)
                 ELSE [rec EXCEPT !.intent = hire.payment_intent_id, !.pc = "capture"]
            ELSE IF hire.payment_intent_id = 0 THEN PayReply(rec, 400, 0)
                 ELSE [rec EXCEPT !.intent = hire.payment_intent_id, !.pc = "refund"]]
    /\ UNCHANGED <<chat, hires, intents>>

\* stripe.paymentIntents.retrieve(hire.payment_intent_id) and the reuse test
PayRetrieve(r) ==
    /\ pay[r].pc = "retrieve"
    /\ pay' = [pay EXCEPT ![r] =
                 IF Reusable(intents[pay[r].intent].status)
                 THEN PayReply(pay[r], 200, pay[r].intent)
                 ELSE [pay[r] EXCEPT !.pc = "createIntent"]]
    /\ UNCHANGED <<chat, hires, intents>>

\* stripe.paymentIntents.create({... capture_method: "manual" ...})
PayCreate(r) ==
    /\ pay[r].pc = "createIntent"
    /\ intents' = CreatedIntents
    /\ pay' = [pay EXCEPT ![r].intent = Len(intents) + 1, ![r].called = TRUE,
                          ![r].pc = "saveIntent"]
    /\ UNCHANGED <<chat, hires>>

\* UPDATE hires SET payment_intent_id = $1 WHERE id = $2; res.json({clientSecret})
PaySave(r) ==
    /\ pay[r].pc = "saveIntent"
    /\ hires' = [hires EXCEPT ![pay[r].hireId].payment_intent_id = pay[r].intent]
    /\ pay' = [pay EXCEPT ![r] = PayReply(pay[r], 200, pay[r].intent)]
    /\ UNCHANGED <<chat, intents>>

\* stripe.paymentIntents.capture(hire.payment_intent_id); a rejection goes to
\* the catch: 500
PayCapture(r) ==
    /\ pay[r].pc = "capture"
    /\ LET i == pay[r].intent
       IN IF CanCapture(i)
          THEN /\ intents' = [intents EXCEPT ![i].status = "succeeded",
                                             ![i].captures = @ + 1]
               /\ pay' = [pay EXCEPT ![r].called = TRUE, ![r].pc = "markPaid"]
          ELSE /\ intents' = intents
               /\ pay' = [pay EXCEPT ![r] =
                            PayReply([pay[r] EXCEPT !.called = TRUE], 500, 0)]
    /\ UNCHANGED <<chat, hires>>

\* UPDATE hires SET paid = true WHERE id = $1
PayMarkPaid(r) ==
    /\ pay[r].pc = "markPaid"
    /\ hires' = [hires EXCEPT ![pay[r].hireId].paid = TRUE]
    /\ pay' = [pay EXCEPT ![r] = PayReply(pay[r], 200, 0)]
    /\ UNCHANGED <<chat, intents>>

\* stripe.refunds.create({ payment_intent }); a rejection goes to the catch: 500
PayRefund(r) ==
    /\ pay[r].pc = "refund"
    /\ LET i == pay[r].intent
       IN IF CanRefund(i)
          THEN /\ intents' = [intents EXCEPT ![i].refunded = TRUE]
               /\ pay' = [pay EXCEPT ![r].called = TRUE, ![r].pc = "markUnpaid"]
          ELSE /\ intents' = intents
               /\ pay' = [pay EXCEPT ![r] =
                            PayReply([pay[r] EXCEPT !.called = TRUE], 500, 0)]
    /\ UNCHANGED <<chat, hires>>

\* UPDATE hires SET paid = false WHERE id = $1
PayMarkUnpaid(r) ==
    /\ pay[r].pc = "markUnpaid"
    /\ hires' = [hires EXCEPT ![pay[r].hireId].paid = FALSE]
    /\ pay' = [pay EXCEPT ![r] = PayReply(pay[r], 200, 0)]
    /\ UNCHANGED <<chat, intents>>

PaySteps(r) ==
    \/ PayUser(r) \/ PayHire(r) \/ PayRetrieve(r) \/ PayCreate(r) \/ PaySave(r)
    \/ PayCapture(r) \/ PayMarkPaid(r)

\* The payer's client, holding the client secret, attaches a payment method
\* to the intent.
ClientAttaches(i) ==
    /\ i \in 1..Len(intents) /\ intents[i].status = "requires_payment_method"
    /\ intents' = [intents EXCEPT ![i].status = "requires_confirmation"]
    /\ UNCHANGED <<chat, hires, pay>>

\* The payer's client confirms the payment: with capture_method "manual" the
\* funds are held.
ClientConfirms(i) ==
    /\ i \in 1..Len(intents) /\ intents[i].status = "requires_confirmation"
    /\ intents' = [intents EXCEPT ![i].status = "requires_capture"]
    /\ UNCHANGED <<chat, hires, pay>>

\* ------------------------------------------------------------ socket layer
\* initSocket(server, admin)
InitSocket ==
    /\ ~io
    /\ io' = TRUE
    /\ UNCHANGED <<money, stores, sockets, req, now, epoch>>

\* Connections are numbered in arrival order.
SockCanArrive(s) ==
    /\ sockets[s].st = "new"
    /\ \A q \in Sock : q < s => sockets[q].st # "new"

\* io.use middleware, up to `await admin.auth().verifyIdToken(token)`
SocketHandshake(s, token) ==
    /\ io
    /\ SockCanArrive(s)
    /\ sockets' = [sockets EXCEPT ![s] =
                     IF token = "" THEN [NewSock EXCEPT !.st = "refused"]
                     ELSE [NewSock EXCEPT !.st = "handshake", !.token = token]]
    /\ UNCHANGED <<money, stores, io, req, now, epoch>>

\* Mutant: the room joined is not the one the routes emit to.
PersonalRoomsPrefixed(userId) == {"user_" \o userId}

\* socket.join(userId)
PersonalRooms(userId) == {userId}

\* Mutant: the catch of the middleware calls next() without an error, the
\* connection handler runs with no identity.
SocketVerifyAdmitsAll(s) ==
    /\ sockets[s].st = "handshake"
    /\ LET uid == VerifyIdToken(sockets[s].token)
       IN sockets' =
            BroadcastFrom(
              [sockets EXCEPT ![s].st = "open", ![s].userId = uid,
                              ![s].rooms = PersonalRooms(uid)],
              s, Event("user_online", 0, 0, uid))
    /\ UNCHANGED <<money, stores, io, req, now, epoch>>

\* verifyIdToken settles; next(); then the connection handler runs.
SocketVerify(s) ==
    /\ sockets[s].st = "handshake"
    /\ LET uid == VerifyIdToken(sockets[s].token)
       IN sockets' =
            IF uid = ""
            THEN [sockets EXCEPT ![s].st = "refused"]
            ELSE BroadcastFrom(
                   [sockets EXCEPT ![s].st = "open", ![s].userId = uid,
                                   ![s].rooms = PersonalRooms(uid)],
                   s, Event("user_online", 0, 0, uid))
    /\ UNCHANGED <<money, stores, io, req, now, epoch>>

\* Mutant: the room of a conversation is named by the bare id.
ConvRoomUnprefixed(c) == c

\* `conversation_${conversationId}`
ConvRoom(c) == "conversation_" \o c

\* Mutant: the join writes back one membership entry for the whole identity,
\* so the conversation rooms of its other sessions are lost.
JoinConversationLastWriterWins(s, c) ==
    /\ sockets[s].st = "open"
    /\ sockets' = [q \in Sock |->
                     IF q = s
                     THEN [sockets[q] EXCEPT !.rooms = @ \cup {ConvRoom(c)},
                                             !.joined = @ \cup {c}]
                     ELSE IF sockets[q].st = "open" /\ sockets[q].userId = sockets[s].userId
                     THEN [sockets[q] EXCEPT !.rooms = {sockets[q].userId}]
                     ELSE sockets[q]]
    /\ UNCHANGED <<money, stores, io, req, now, epoch>>

\* socket.on("join_conversation"): socket.join(`conversation_${conversationId}`)
JoinConversation(s, c) ==
    /\ sockets[s].st = "open"
    /\ sockets' = [sockets EXCEPT ![s].rooms = @ \cup {ConvRoom(c)},
                                  ![s].joined = @ \cup {c}]
    /\ UNCHANGED <<money, stores, io, req, now, epoch>>

\* Mutant: leaving a conversation leaves every room but the personal one.
LeaveConversationLeavesAll(s, c) ==
    /\ sockets[s].st = "open"
    /\ sockets' = [sockets EXCEPT ![s].rooms = @ \cap {sockets[s].userId},
                                  ![s].joined = @ \ {c}]
    /\ UNCHANGED <<money, stores, io, req, now, epoch>>

\* socket.on("leave_conversation"): socket.leave(`conversation_${conversationId}`)
LeaveConversation(s, c) ==
    /\ sockets[s].st = "open"
    /\ sockets' = [sockets EXCEPT ![s].rooms = @ \ {ConvRoom(c)},
                                  ![s].joined = @ \ {c}]
    /\ UNCHANGED <<money, stores, io, req, now, epoch>>

\* Mutant: the closing socket stays in its rooms.
LeaveAllRoomsKeepsRooms(socks, s) ==
    [socks EXCEPT ![s].st = "closed", ![s].joined = {}]

\* The transport drops the closing socket from every room it is in.
LeaveAllRooms(socks, s) ==
    [socks EXCEPT ![s].st = "closed", ![s].rooms = {}, ![s].joined = {}]

\* Mutant: the disconnect handler aborts the requests of its user that are
\* in progress.
SocketDisconnectCancelsSends(s) ==
    /\ sockets[s].st = "open"
    /\ sockets' = BroadcastFrom(LeaveAllRooms(sockets, s), s,
                                Event("user_offline", 0, 0, sockets[s].userId))
    /\ req' = [r \in AllReq |->
                 IF req[r].uid = sockets[s].userId /\ req[r].pc \notin {"idle", "done"}
                 THEN Reply(req[r], 500) ELSE req[r]]
    /\ UNCHANGED <<money, stores, io, now, epoch>>

\* Mutant: the disconnect handler empties the identity's personal room.
SocketDisconnectDropsUser(s) ==
    /\ sockets[s].st = "open"
    /\ sockets' = BroadcastFrom(
                     [q \in Sock |->
                        IF q = s THEN [sockets[q] EXCEPT !.st = "closed", !.rooms = {},
                                                         !.joined = {}]
                        ELSE [sockets[q] EXCEPT !.rooms = @ \ {sockets[s].userId}]],
                     s, Event("user_offline", 0, 0, sockets[s].userId))
    /\ UNCHANGED <<money, stores, io, req, now, epoch>>

\* socket.on("disconnect"): socket.broadcast.emit("user_offline", { userId })
SocketDisconnect(s) ==
    /\ sockets[s].st = "open"
    /\ sockets' = BroadcastFrom(LeaveAllRooms(sockets, s), s,
                                Event("user_offline", 0, 0, sockets[s].userId))
    /\ UNCHANGED <<money, stores, io, req, now, epoch>>

\* ---------------------------------------------------------- specifications
SendSteps(r) ==
    \/ SendUsers(r) \/ SendFindConv(r) \/ SendInsertConv(r)
    \/ SendPush(r) \/ SendUnreadRead(r) \/ SendUnreadSet(r)

StartSteps(r) == StartUsers(r) \/ StartFind(r) \/ StartInsert(r) \/ StartOther(r)

ReadSteps(r) == ReadSet(r) \/ ReadUser(r) \/ ReadConv(r) \/ ReadOther(r)

Pairs == {<<"u1", "u2">>, <<"u2", "u1">>}

\* Find-or-create races: both users start the conversation or send a first
\* message, in either order, with nothing stored yet.
NextStart ==
    \/ \E r \in Req, p \in Pairs :
          \/ StartRequest(r, p[1], p[2])
          \/ SendRequest(r, p[1], p[2], "hi", 0)
    \/ \E r \in Req : StartSteps(r) \/ SendSteps(r)
    \/ Tick

SpecStart == Init /\ [][NextStart]_vars

OldSendSteps(r) ==
    \/ OldSendFindChat(r) \/ OldSendInsertChat(r) \/ OldSendInsertMsg(r)
    \/ OldSendNotify(r)

\* The unread ledger of u2: u1 sends through either router, u2 acknowledges
\* conversation 1 through either router, and store calls may fail.
NextUnread ==
    \/ \E r \in Req :
          \/ SendRequest(r, "u1", "u2", "hi", 0)
          \/ OldSendRequest(r, "u1", "u2", "hi")
          \/ ReadRequest(r, "u2", 1)
          \/ OldReadRequest(r, "u2", 1)
    \/ \E r \in Req :
          \/ SendSteps(r) \/ OldSendSteps(r) \/ ReadSteps(r)
          \/ StoreFails(r)

SpecUnread == Init /\ [][NextUnread]_vars

Tokens == {"", "bad", "tok_u1", "tok_u2"}

\* Presence and fan-out: connections of u1 and u2 come and go (some without a
\* valid credential) and join or leave the channel of conversation 1 while
\* u1 sends to u2; the socket layer is initialised at some point, or never.
NextPresence ==
    \/ InitSocket
    \/ \E s \in Sock :
          \/ \E token \in Tokens : SocketHandshake(s, token)
          \/ SocketVerify(s)
          \/ JoinConversation(s, "1")
          \/ LeaveConversation(s, "1")
          \/ SocketDisconnect(s)
    \/ \E r \in 1..MaxFanOut :
          \/ SendRequest(r, "u1", "u2", "hi", 1)
          \/ SendUsers(r) \/ SendPush(r) \/ SendUnreadRead(r) \/ SendUnreadSet(r)

SpecPresence == Init /\ [][NextPresence]_vars

\* Persistence against dispatch: u1 sends to u2 through either router while
\* store calls may fail, the socket layer is initialised at some point or
\* never, and one device of u2 connects and disconnects.
NextDispatch ==
    \/ InitSocket
    \/ SocketHandshake(1, "tok_u2")
    \/ SocketVerify(1)
    \/ SocketDisconnect(1)
    \/ \E r \in Req :
          \/ SendRequest(r, "u1", "u2", "hi", 1)
          \/ OldSendRequest(r, "u1", "u2", "hi")
          \/ SendUsers(r) \/ SendPush(r) \/ SendUnreadRead(r) \/ SendUnreadSet(r)
          \/ OldSendSteps(r)
          \/ StoreFails(r)

SpecDispatch == Init /\ [][NextDispatch]_vars

ListSteps(r) == ListUser(r) \/ ListConv(r) \/ ListRead(r)

\* The message log read while it grows. The conversation of u1 and u2 is
\* stored already (as POST /start leaves it); u1 sends messages into it while
\* the clock moves on, and lists its messages.
InitList ==
    /\ InitMoney
    /\ conversations = <<[id |-> 1, user_a |-> 10, user_b |-> 20]>>
    /\ chats = <<>>
    /\ pgMessages = <<>>
    /\ fbMessages = <<>>
    /\ unread = <<>>
    /\ notifications = <<>>
    /\ io = FALSE
    /\ sockets = [s \in Sock |-> NewSock]
    /\ req = [r \in AllReq |-> IdleReq]
    /\ now = 0
    /\ epoch = <<>>

NextList ==
    \/ \E r \in Req :
          \/ SendRequest(r, "u1", "u2", "hi", 1)
          \/ SendUsers(r) \/ SendPush(r) \/ SendUnreadRead(r) \/ SendUnreadSet(r)
    \/ \E r \in Late : ListRequest(r, "u1", 1) \/ ListSteps(r)
    \/ Tick

SpecList == InitList /\ [][NextList]_vars

\* Who may read: u1 sends to u2 through either router, and u1 (a participant)
\* or u3 (who is not) asks either router for the messages of conversation 1.
NextAccess ==
    \/ \E r \in Req :
          \/ SendRequest(r, "u1", "u2", "hi", 0)
          \/ OldSendRequest(r, "u1", "u2", "hi")
          \/ SendSteps(r) \/ OldSendSteps(r)
    \/ \E r \in Late, u \in {"u1", "u3"} :
          \/ ListRequest(r, u, 1)
          \/ OldListRequest(r, u, 1)
    \/ \E r \in Late : ListSteps(r) \/ OldListQuery(r)

SpecAccess == Init /\ [][NextAccess]_vars

\* Sender, receiver and text of the sends the validation is tried with: to
\* oneself, with an empty and a blank text, to and from u3 (who has no
\* account), and a proper one.
GuardSends ==
    {<<"u1", "u1", "hi">>, <<"u1", "u2", "">>, <<"u1", "u2", " ">>,
     <<"u1", "u3", "hi">>, <<"u3", "u1", "hi">>, <<"u1", "u2", " hi ">>}

\* Caller and other_uid of the starts: with oneself, with nobody, with and
\* by u3, and a proper one.
GuardStarts ==
    {<<"u1", "u1">>, <<"u1", "">>, <<"u1", "u3">>, <<"u3", "u1">>, <<"u1", "u2">>}

\* Input validation of POST /send of both routers and of POST /start.
NextGuard ==
    \/ \E r \in Req, g \in GuardSends :
          \/ SendRequest(r, g[1], g[2], g[3], 0)
          \/ OldSendRequest(r, g[1], g[2], g[3])
    \/ \E r \in Req, g \in GuardStarts : StartRequest(r, g[1], g[2])
    \/ \E r \in Req : SendSteps(r) \/ OldSendSteps(r) \/ StartSteps(r)

SpecGuard == Init /\ [][NextGuard]_vars

\* Find-or-create again and again: u1 and u2 start the conversation or send
\* a first message, and further calls for the same pair follow.
NextAgain ==
    \/ \E r \in AllReq, p \in Pairs :
          \/ StartRequest(r, p[1], p[2])
          \/ SendRequest(r, p[1], p[2], "hi", 0)
    \/ \E r \in AllReq : StartSteps(r) \/ SendSteps(r)

SpecAgain == Init /\ [][NextAgain]_vars

TypingSteps(r) == TypingUser(r) \/ TypingConv(r) \/ TypingOther(r)

\* What a client may name in join_conversation and leave_conversation: ids
\* of conversations, and the uids of the users.
Channels == {"1", "2", "u1", "u2"}

\* Channel membership: devices of u1 and u2 connect, join and leave what
\* they like, and disconnect.
NextRooms ==
    \/ InitSocket
    \/ \E s \in Sock :
          \/ \E token \in {"tok_u1", "tok_u2"} : SocketHandshake(s, token)
          \/ SocketVerify(s)
          \/ \E c \in Channels : JoinConversation(s, c) \/ LeaveConversation(s, c)
          \/ SocketDisconnect(s)

SpecRooms == Init /\ [][NextRooms]_vars

\* An open session of uid holds a "new_message" event of conversation cid.
HoldsNewMessage(uid, cid) ==
    \E s \in Sock :
        /\ sockets[s].st = "open" /\ sockets[s].userId = uid
        /\ \E i \in 1..Len(sockets[s].inbox) :
              /\ sockets[s].inbox[i].type = "new_message"
              /\ sockets[s].inbox[i].conversationId = cid

\* The conversationId a client puts into POST /send: none, the id of the
\* stored conversation, or another number.
SentConversationIds == {0, 1, 2}

\* List on receipt: the conversation of u1 and u2 is stored, devices of u2
\* connect and disconnect, u1 sends to u2, and u2 asks for the messages of a
\* conversation when one of its devices holds a "new_message" event of it.
NextReceipt ==
    \/ InitSocket
    \/ \E s \in Sock :
          SocketHandshake(s, "tok_u2") \/ SocketVerify(s) \/ SocketDisconnect(s)
    \/ \E r \in Req :
          \/ \E cid \in SentConversationIds : SendRequest(r, "u1", "u2", "hi", cid)
          \/ SendUsers(r) \/ SendFindConv(r) \/ SendPush(r)
          \/ SendUnreadRead(r) \/ SendUnreadSet(r)
    \/ \E r \in Late :
          \/ \E cid \in SentConversationIds \ {0} :
                HoldsNewMessage("u2", cid) /\ ListRequest(r, "u2", cid)
          \/ ListSteps(r)

SpecReceipt == InitList /\ [][NextReceipt]_vars

\* Sender, receiver and conversationId of the sends into the stored
\* conversation 1 of u1 and u2: by a participant to the other one, with and
\* without the id; by u4, who is no participant; to u4; and with an id that
\* names no conversation.
ForeignSends ==
    {<<"u1", "u2", 1>>, <<"u2", "u1", 0>>, <<"u4", "u2", 1>>, <<"u1", "u4", 1>>,
     <<"u1", "u2", 2>>}

\* Whose conversation: sends that name a conversation themselves.
NextForeign ==
    \E r \in Req :
        \/ \E x \in ForeignSends : SendRequest(r, x[1], x[2], "hi", x[3])
        \/ SendUsers(r) \/ SendFindConv(r) \/ SendPush(r)
        \/ SendUnreadRead(r) \/ SendUnreadSet(r)

SpecForeign == InitList /\ [][NextForeign]_vars

\* Who is told: with conversation 1 of u1 and u2 stored and devices of u1 and
\* u2 connected, a participant (u1), a registered non-participant (u4) and a
\* caller without an account (u3) post typing flags and reads for
\* conversation 1 and for the unknown conversation 2.
NextSeen ==
    \/ InitSocket
    \/ \E s \in Sock :
          \/ \E token \in {"tok_u1", "tok_u2"} : SocketHandshake(s, token)
          \/ SocketVerify(s)
    \/ \E r \in Req :
          \/ \E u \in {"u1", "u3", "u4"}, cid \in {1, 2} :
                TypingRequest(r, u, cid) \/ ReadRequest(r, u, cid)
          \/ TypingSteps(r)
          \/ ReadSteps(r)

SpecSeen == InitList /\ [][NextSeen]_vars

\* No send has arrived yet.
NothingSent == \A r \in Req : req[r].pc = "idle"

\* Listening in: devices of the sender u1, the receiver u2 and the bystander
\* u4 connect; then, while u1 sends to u2 in conversation 1, they ask to join
\* the room of conversation 1 and a room named after u2.
NextListenIn ==
    \/ InitSocket
    \/ \E s \in Sock :
          \/ \E token \in {"tok_u1", "tok_u2", "tok_u4"} :
                NothingSent /\ SocketHandshake(s, token)
          \/ NothingSent /\ SocketVerify(s)
          \/ \E c \in {"1", "u2"} : JoinConversation(s, c)
    \/ \E r \in 1..MaxFanOut :
          \/ SendRequest(r, "u1", "u2", "hi", 1)
          \/ SendUsers(r) \/ SendPush(r) \/ SendUnreadRead(r) \/ SendUnreadSet(r)

SpecListenIn == InitList /\ [][NextListenIn]_vars

\* The funds of hire 1 are held: u1 asked for an intent (create-intent) and
\* the client confirmed the payment.
InitHeld ==
    /\ Init!2 /\ Init!3 /\ Init!4 /\ Init!5 /\ Init!6 /\ Init!7 /\ Init!8
    /\ Init!9 /\ Init!10 /\ Init!11 /\ Init!12
    /\ hires = [h \in {1} |->
                  [hired_by_id |-> 10, payment_intent_id |-> 1, paid |-> FALSE]]
    /\ intents = <<[status |-> "requires_capture", captures |-> 0, refunded |-> FALSE]>>
    /\ pay = [r \in Req |-> IdlePay]

\* Releasing held funds: u1 asks to capture the payment of hire 1, more than
\* once and at the same time, and asks for an intent again; the client pays
\* the intents it is given.
NextCapture ==
    \/ \E r \in Req :
          \/ \E op \in {"capture", "create"} : PayRequest(r, op, "u1", 1)
          \/ PaySteps(r)
    \/ \E i \in 1..MaxReq + 1 : ClientAttaches(i) \/ ClientConfirms(i)

SpecCapture == InitHeld /\ [][NextCapture]_vars

RefundSteps(r) == PayRefund(r) \/ PayMarkUnpaid(r)

\* Whose hire: with the funds of hire 1 held, the payer u1, the registered
\* stranger u4 and u3, who has no account, ask for an intent, a capture and a
\* refund of hire 1.
NextOwner ==
    \/ \E r \in Req :
          \/ \E op \in {"create", "capture", "refund"}, uid \in {"u1", "u3", "u4"} :
                PayRequest(r, op, uid, 1)
          \/ PaySteps(r)
          \/ RefundSteps(r)
    \/ \E i \in 1..MaxReq + 1 : ClientAttaches(i) \/ ClientConfirms(i)

SpecOwner == InitHeld /\ [][NextOwner]_vars

IntentSteps(r) ==
    PayUser(r) \/ PayHire(r) \/ PayRetrieve(r) \/ PayCreate(r) \/ PaySave(r)

\* Asking for an intent again: u1 posts create-intent for hire 1 repeatedly
\* and at the same time, through the router that reuses an intent and through
\* the one that does not, while the client may go on with the payment.
NextIntent ==
    \/ \E r \in Req :
          \/ \E op \in {"create", "oldCreate"} : PayRequest(r, op, "u1", 1)
          \/ IntentSteps(r)
    \/ \E i \in 1..MaxReq : ClientAttaches(i) \/ ClientConfirms(i)

SpecIntent == Init /\ [][NextIntent]_vars

\* Request r is between its arrival and its response.
InProgress(r) == req[r].pc \notin {"idle", "done"}

SendStepsInto(r) ==
    SendUsers(r) \/ SendPush(r) \/ SendUnreadRead(r) \/ SendUnreadSet(r)

\* No request is between its arrival and its response.
Quiet == \A r \in AllReq : ~InProgress(r)

\* The session s closes while a request of its user is in progress.
SenderDrops(s) ==
    /\ \E r \in Req : req[r].uid = sockets[s].userId /\ InProgress(r)
    /\ SocketDisconnect(s)

\* The sender drops out: with the conversation of u1 and u2 stored, devices
\* of u1 connect, u1 sends (sends may overlap), the devices disconnect
\* while a send is in progress, and u2 lists the conversation while no send
\* is in progress.
NextDrop ==
    \/ InitSocket
    \/ \E s \in Sock :
          \/ Quiet /\ SocketHandshake(s, "tok_u1")
          \/ Quiet /\ SocketVerify(s)
          \/ SenderDrops(s)
    \/ \E r \in 1..MaxFanOut :
          \/ (\A l \in Late : ~InProgress(l)) /\ SendRequest(r, "u1", "u2", "hi", 1)
          \/ SendStepsInto(r)
    \/ \E r \in Late : (Quiet /\ ListRequest(r, "u2", 1)) \/ ListSteps(r)

\* A handler is resumed once the call it awaits has settled, and here every
\* store call settles.
FairDrop ==
    /\ \A r \in 1..MaxFanOut : WF_vars(SendStepsInto(r))
    /\ \A r \in Late : WF_vars(ListSteps(r))

SpecDrop == InitList /\ [][NextDrop]_vars /\ FairDrop

\* The log as it grows: with the conversation of u1 and u2 stored, u1 sends
\* into it and lists it, again and again.
NextLog ==
    \/ \E r \in Req :
          \/ SendRequest(r, "u1", "u2", "hi", 1)
          \/ SendUsers(r) \/ SendPush(r) \/ SendUnreadRead(r) \/ SendUnreadSet(r)
    \/ \E r \in AllReq : ListRequest(r, "u1", 1) \/ ListSteps(r)

SpecLog == InitList /\ [][NextLog]_vars

\* The unread ledger among everything else: u1 sends to u2 and u2
\* acknowledges through either router, u2 starts the conversation, u1 lists
\* it and signals typing, and a device of u2 connects, joins, leaves and
\* disconnects.
NextLedger ==
    \/ \E r \in Req :
          \/ SendRequest(r, "u1", "u2", "hi", 0)
          \/ OldSendRequest(r, "u1", "u2", "hi")
          \/ ReadRequest(r, "u2", 1)
          \/ OldReadRequest(r, "u2", 1)
          \/ StartRequest(r, "u2", "u1")
          \/ SendSteps(r) \/ OldSendSteps(r) \/ ReadSteps(r) \/ StartSteps(r)
    \/ \E r \in Late :
          \/ ListRequest(r, "u1", 1)
          \/ TypingRequest(r, "u1", 1)
          \/ ListSteps(r) \/ TypingSteps(r)
    \/ InitSocket
    \/ SocketHandshake(1, "tok_u2")
    \/ SocketVerify(1)
    \/ JoinConversation(1, "1")
    \/ LeaveConversation(1, "1")
    \/ SocketDisconnect(1)

SpecLedger == Init /\ [][NextLedger]_vars

\* ------------------------------------------------------------- the claims
Sends == {"send", "oldSend"}

Done(r) == req[r].pc = "done"

\* Requests of the send routes addressed to u in conversation c whose message
\* was appended to the log.
AppendedFor(u, c) ==
    {r \in Req : /\ req[r].op \in Sends /\ req[r].msgKey # 0
                 /\ req[r].other = u /\ req[r].chatId = c
                 /\ \E i \in 1..Len(Log(c)) : Log(c)[i].key = req[r].msgKey}

\* C1: for every unordered pair of distinct identities, find-or-create calls
\* running concurrently (POST /start, POST /send without conversationId, the
\* pair in either order) leave exactly one persisted conversation, and every
\* caller observes that same conversation id.
C1_OneConversationPerPair ==
    /\ Cardinality(ConvRows(10, 20)) <= 1
    /\ \A r, q \in Req :
          (/\ Done(r) /\ req[r].status = 200 /\ req[r].op \in {"start", "send"}
           /\ Done(q) /\ req[q].status = 200 /\ req[q].op \in {"start", "send"})
          => req[r].chatId = req[q].chatId

\* C2: after K successful sends addressed to a recipient in a conversation and
\* no read, the unread counter equals K, also when the send handlers
\* interleave (no store call failing).
C2_CounterEqualsSends ==
    \A c \in 1..MaxReq :
        (/\ \A r \in Req : req[r].pc # "idle" =>
                /\ req[r].op \in Sends
                /\ Done(r) /\ req[r].status = 200
         /\ \E r \in Req : req[r].pc # "idle")
        => UnreadVal(<<"u2", c>>) =
             Cardinality({r \in Req : req[r].op \in Sends /\ Done(r)
                                       /\ req[r].other = "u2" /\ req[r].chatId = c})

\* C3: once a reset of (user, conversation) has completed, the counter never
\* shows a value that includes an increment computed from a reading taken
\* before that reset.
C3_NoStaleIncrementAfterReset ==
    \A k \in DOMAIN epoch : epoch[k].written = epoch[k].resets

\* Session s closes in this step.
ClosesNow(s) == sockets[s].st = "open" /\ sockets'[s].st = "closed"

\* The events session q receives in this step.
Received(q) == SubSeq(sockets'[q].inbox, Len(sockets[q].inbox) + 1,
                      Len(sockets'[q].inbox))

\* C4: an "offline" event for identity U is broadcast when a session of U
\* closes only if that was U's last live session; closing one of several live
\* sessions of U broadcasts no "offline" event for U.
C4_OfflineOnlyForLastSession ==
    [][\A s \in Sock :
          (/\ ClosesNow(s)
           /\ \E q \in Sock \ {s} : /\ sockets'[q].st = "open"
                                    /\ sockets'[q].userId = sockets[s].userId)
          => \A q \in Sock : \A i \in 1..Len(Received(q)) :
                ~(/\ Received(q)[i].type = "user_offline"
                  /\ Received(q)[i].from = sockets[s].userId)]_vars

\* The send r reaches its emit calls in this step.
DispatchesNow(r) ==
    /\ req[r].op = "send" /\ req[r].pc = "unreadSet"
    /\ req'[r].pc = "done" /\ req'[r].status = 200

\* C5: when a send addressed to U is dispatched, the "new_message" event is
\* delivered to every session of U that is live at that moment, whichever
\* conversation channels those sessions have joined.
C5_FanOutToEveryLiveSession ==
    [][\A r \in Req : DispatchesNow(r) =>
          \A s \in Sock :
             (sockets[s].st = "open" /\ sockets[s].userId = req[r].other)
             => \E i \in 1..Len(Received(s)) :
                   Received(s)[i] = Event("new_message", req[r].chatId,
                                          req[r].msgKey, req[r].uid)]_vars

HasNewMessage(s) ==
    \E i \in 1..Len(sockets[s].inbox) : sockets[s].inbox[i].type = "new_message"

\* Two sessions of u2 are live, one in conversation 1's channel and one not,
\* and both have received a "new_message".
C5_Witness ==
    \E s, q \in Sock :
        /\ s # q
        /\ sockets[s].st = "open" /\ sockets[s].userId = "u2"
        /\ sockets[q].st = "open" /\ sockets[q].userId = "u2"
        /\ ConvRoom("1") \in sockets[s].rooms
        /\ ConvRoom("1") \notin sockets[q].rooms
        /\ HasNewMessage(s) /\ HasNewMessage(q)

\* C6: disconnecting one session of U leaves the personal-channel and the
\* conversation-channel memberships of every other live session unchanged,
\* and each of them is still in its identity's personal channel.
C6_DisconnectKeepsOtherSessions ==
    [][\A s \in Sock : ClosesNow(s) =>
          \A q \in Sock \ {s} :
             /\ sockets'[q].rooms = sockets[q].rooms
             /\ sockets'[q].st = sockets[q].st
             /\ sockets'[q].st = "open" => sockets'[q].userId \in sockets'[q].rooms]_vars

\* A session of u2 has closed and the other one, still in conversation 1's
\* channel, has since received a "new_message".
C6_Witness ==
    \E s, q \in Sock :
        /\ sockets[s].st = "closed" /\ sockets[s].userId = "u2"
        /\ sockets[q].st = "open" /\ sockets[q].userId = "u2"
        /\ ConvRoom("1") \in sockets[q].rooms
        /\ \E i, j \in 1..Len(sockets[q].inbox) :
              /\ i < j
              /\ sockets[q].inbox[i] = Event("user_offline", 0, 0, "u2")
              /\ sockets[q].inbox[j].type = "new_message"

\* The append of send r was rejected by the store.
AppendFailed(r) == req[r].op \in Sends /\ req[r].failedAt \in {"push", "insertMsg"}

\* C7: if the message append of a send fails, that send performs no unread
\* increment and no dispatch, and the sender receives an error response.
C7_FailedAppendStopsTheSend ==
    \A r \in Req : AppendFailed(r) =>
        /\ Done(r) /\ req[r].status = 500
        /\ req[r].msgKey = 0
        /\ ~req[r].wrote
        /\ ~req[r].emitted

\* The append failed while a session of the receiver was live.
C7_Witness ==
    \E r \in Req, s \in Sock :
        /\ AppendFailed(r)
        /\ sockets[s].st = "open" /\ sockets[s].userId = req[r].other

\* C8: a send request returns a success response if and only if its message
\* was appended to the message log.
C8_SuccessIffAppended ==
    \A r \in Req : (req[r].op \in Sends /\ Done(r)) =>
        (req[r].status = 200 <=> req[r].msgKey # 0)

\* C9: the unread counter of (recipient, conversation) is a non-negative
\* integer that never exceeds the number of messages appended to that
\* conversation's log by sends addressed to that recipient, and a send touches
\* the counter only after its append succeeded.
C9_NeverOverCounts ==
    /\ \A k \in DOMAIN unread :
          /\ unread[k] \in Nat
          /\ unread[k] <= Cardinality(AppendedFor(k[1], k[2]))
    /\ \A r \in Req :
          (req[r].pc \in {"unreadRead", "unreadSet", "notify"} \/ req[r].wrote)
          => r \in AppendedFor(req[r].other, req[r].chatId)

\* Two messages for u2 are in the log of a conversation and its badge shows 2.
C9_Witness ==
    \E k \in DOMAIN unread :
        unread[k] = 2 /\ Cardinality(AppendedFor(k[1], k[2])) = 2

\* C10: a send whose append and increment succeeded returns success, also when
\* the recipient has no live session or the socket layer is not initialised.
C10_DispatchNeverChangesResponse ==
    \A r \in Req :
        (req[r].op = "send" /\ Done(r) /\ req[r].wrote) => req[r].status = 200

\* One send answered while the socket layer was not initialised, another one
\* after it was, with no session of anybody connected.
C10_Witness ==
    \E r, q \in Req :
        /\ req[r].op = "send" /\ Done(r) /\ req[r].wrote /\ ~req[r].emitted
        /\ req[q].op = "send" /\ Done(q) /\ req[q].wrote /\ req[q].emitted
        /\ \A s \in Sock : sockets[s].st # "open" /\ sockets[s].inbox = <<>>

\* The response a send gives, told from the request and from what the stores
\* did, with no look at the connections.
SendResponseFromStores(rec) ==
    IF SendRejectsContent(rec.content) THEN <<400, {"message"}>>
    ELSE IF rec.failedAt # "" THEN <<500, {"message", "error"}>>
    ELSE IF Cardinality(UsersRows({rec.uid, rec.other})) # 2 THEN <<404, {"message"}>>
    ELSE <<200, {"success", "messageId", "conversationId"}>>

\* The live sessions of u that got the new_message event of request r.
ReachedBy(r, u) ==
    {s \in Sock : /\ sockets[s].userId = u
                  /\ \E i \in 1..Len(sockets[s].inbox) :
                        /\ sockets[s].inbox[i].type = "new_message"
                        /\ sockets[s].inbox[i].id = req[r].msgKey}

\* C11: the sender never learns whether the receiver was live: the response of
\* a send (status and body shape) is fixed by the request and by the outcome
\* of its store calls, so two runs that differ only in the receiver's live
\* sessions answer the same send the same way.
C11_ResponseHidesReceiverLiveness ==
    \A r \in AllReq :
        (req[r].op = "send" /\ Done(r))
        => <<req[r].status, req[r].body>> = SendResponseFromStores(req[r])

\* Two sends got the same success response; one was delivered to a live
\* session of the receiver, the other one reached nobody.
C11_Witness ==
    \E r, q \in Req :
        /\ req[r].op = "send" /\ Done(r) /\ req[r].status = 200
        /\ req[q].op = "send" /\ Done(q) /\ req[q].status = 200
        /\ req[r].body = req[q].body
        /\ ReachedBy(r, req[r].other) # {}
        /\ ReachedBy(q, req[q].other) = {}

\* Finished list requests of the conversations router that returned messages.
Listed == {l \in AllReq : req[l].op = "list" /\ Done(l) /\ req[l].status = 200}

\* C12: list returns the messages in non-decreasing order of the key it orders
\* by (the server-side timestamp of the send), in whatever order concurrent
\* sends reached the log; no client-supplied time enters the comparison.
C12_ListIsSortedByOrderingKey ==
    \A l \in Listed :
        \A i, j \in 1..Len(req[l].result) :
            i < j => req[l].result[i].timestamp <= req[l].result[j].timestamp

\* A list returned two messages of which the later-stamped one had reached
\* the log first.
C12_Witness ==
    \E l \in Listed :
        \E i, j \in 1..Len(req[l].result) :
            /\ i < j
            /\ req[l].result[i].timestamp < req[l].result[j].timestamp
            /\ req[l].result[i].id > req[l].result[j].id

\* The key list orders by: the timestamp of the send, ties in the order of the
\* push keys (the sort is stable over the entries in key order).
KeyBefore(a, b) ==
    \/ a.timestamp < b.timestamp
    \/ a.timestamp = b.timestamp /\ a.id < b.id

\* Position of the message with push key k in a list result, 0 when absent.
PosIn(res, k) ==
    IF \E i \in 1..Len(res) : res[i].id = k
    THEN CHOOSE i \in 1..Len(res) : res[i].id = k
    ELSE 0

\* C13: the ordering key given to a message is strictly increasing in the
\* order the appends arrive at the log, concurrent appends included; so no
\* list orders two messages against their arrival order, and two lists order
\* the messages they have in common identically.
C13_KeyIncreasesInArrivalOrder ==
    /\ \A c \in DOMAIN fbMessages :
          \A i, j \in 1..Len(fbMessages[c]) :
              i < j => KeyBefore(MessageEntries(fbMessages[c])[i],
                                 MessageEntries(fbMessages[c])[j])
    /\ \A l \in Listed :
          \A i, j \in 1..Len(req[l].result) :
              i < j => req[l].result[i].id < req[l].result[j].id
    /\ \A l, k \in Listed :
          \A a, b \in 1..Len(req[l].result) :
              (/\ a < b
               /\ PosIn(req[k].result, req[l].result[a].id) # 0
               /\ PosIn(req[k].result, req[l].result[b].id) # 0)
              => PosIn(req[k].result, req[l].result[a].id)
                    < PosIn(req[k].result, req[l].result[b].id)

\* Pairs <<r, q>> of sends to one conversation where r had returned success
\* before q arrived and q's message is in the log.
SentInSequence ==
    {p \in Req \X Req :
        /\ req[p[1]].op = "send" /\ req[p[2]].op = "send"
        /\ p[1] \in req[p[2]].after /\ req[p[1]].status = 200
        /\ req[p[2]].msgKey # 0
        /\ req[p[1]].chatId = req[p[2]].chatId}

\* C14: if the send of m1 returned success before the send of m2 to the same
\* conversation began, every list that returns m2 returns m1 before it.
C14_SequentialSendsListInOrder ==
    \A p \in SentInSequence :
        \A l \in Listed :
            (/\ req[l].chatId = req[p[2]].chatId
             /\ PosIn(req[l].result, req[p[2]].msgKey) # 0)
            => /\ PosIn(req[l].result, req[p[1]].msgKey) # 0
               /\ PosIn(req[l].result, req[p[1]].msgKey)
                     < PosIn(req[l].result, req[p[2]].msgKey)

\* Two sends, one after the other within the same clock value, and a list
\* that returned both messages, in the order they were sent.
C14_Witness ==
    \E p \in SentInSequence :
        \E l \in Listed :
            /\ req[l].chatId = req[p[2]].chatId
            /\ PosIn(req[l].result, req[p[1]].msgKey) = 1
            /\ PosIn(req[l].result, req[p[2]].msgKey) = 2
            /\ req[l].result[1].timestamp = req[l].result[2].timestamp

\* C15: a connection that presents no credential, or one the verifier does
\* not accept, never gets past the handshake: it is bound to no identity, is
\* in no channel, receives nothing, its connection handler never runs, and
\* nobody is told that somebody came online.
C15_NoCredentialNeverAuthenticated ==
    [][\A s \in Sock :
          (sockets'[s].st # "new" /\ VerifyIdToken(sockets'[s].token) = "")
          => /\ sockets'[s].st \in {"handshake", "refused"}
             /\ sockets'[s].userId = ""
             /\ sockets'[s].rooms = {}
             /\ sockets'[s].inbox = <<>>
             /\ sockets'[s] # sockets[s]
                   => \A q \in Sock \ {s} : sockets'[q] = sockets[q]]_vars

\* A connection with a token the verifier rejects was refused while a
\* session of a user was there, which was told nothing.
C15_Witness ==
    \E s, q \in Sock :
        /\ sockets[s].st = "refused" /\ sockets[s].token = "bad"
        /\ sockets[q].st \in {"open", "closed"} /\ sockets[q].inbox = <<>>

\* The conversation a list request names exists, in the table its router uses.
ListedConversationExists(l) ==
    IF req[l].op = "list"
    THEN \E i \in 1..Len(conversations) : conversations[i].id = req[l].chatId
    ELSE \E i \in 1..Len(chats) : chats[i].id = req[l].chatId

\* The requester of a list request is one of the two participants.
RequesterParticipates(l) ==
    IF req[l].op = "list"
    THEN \E i \in 1..Len(conversations) :
            /\ conversations[i].id = req[l].chatId
            /\ UserId(req[l].uid) # 0
            /\ UserId(req[l].uid) \in {conversations[i].user_a, conversations[i].user_b}
    ELSE \E i \in 1..Len(chats) :
            /\ chats[i].id = req[l].chatId
            /\ req[l].uid \in {chats[i].user1_uid, chats[i].user2_uid}

\* C16: reading the messages of a conversation fails with 403 and returns no
\* message unless the requester is one of its two participants (a requester
\* with no account may be turned away with 404 before that).
C16_OnlyParticipantsRead ==
    \A l \in AllReq :
        (/\ req[l].op \in {"list", "oldList"} /\ Done(l) /\ req[l].failedAt = ""
         /\ ListedConversationExists(l) /\ ~RequesterParticipates(l))
        => /\ req[l].result = <<>>
           /\ \/ req[l].status = 403
              \/ req[l].status = 404 /\ req[l].uid \notin Registered

FindOrCreates == {"start", "send", "oldSend"}

\* C17: find-or-create for an identity with itself fails with 400 and creates
\* nothing, through POST /start as through POST /send with the receiver equal
\* to the sender; no stored conversation has the same identity twice.
C17_NoConversationWithOneself ==
    /\ \A r \in AllReq :
          (req[r].op \in FindOrCreates /\ req[r].uid = req[r].other)
          => /\ Done(r) => req[r].status = 400
             /\ req[r].chatId = 0 /\ req[r].msgKey = 0 /\ ~req[r].wrote
    /\ \A i \in 1..Len(conversations) :
          conversations[i].user_a # conversations[i].user_b
    /\ \A i \in 1..Len(chats) : chats[i].user1_uid # chats[i].user2_uid

\* C18: a send whose text is empty or only whitespace fails with 400 before
\* any store is touched: the handler returns on arrival.
C18_BlankTextRejectedFirst ==
    \A r \in AllReq :
        (req[r].op \in Sends /\ Trim(req[r].content) = "")
        => /\ Done(r) /\ req[r].status = 400
           /\ req[r].chatId = 0 /\ req[r].msgKey = 0 /\ ~req[r].wrote

\* Sends and starts with proper arguments where the sender or the receiver
\* has no account.
WithoutAccount ==
    {r \in AllReq :
        /\ req[r].op \in FindOrCreates
        /\ req[r].other # "" /\ req[r].uid # req[r].other
        /\ req[r].op \in Sends => Trim(req[r].content) # ""
        /\ ~({req[r].uid, req[r].other} \subseteq Registered)}

\* C19: when the sender or the receiver has no account, send and start fail
\* with 404; the conversations, the log and the counters stay as they were
\* and nothing is dispatched.
C19_UnknownUserChangesNothing ==
    /\ \A r \in WithoutAccount :
          /\ Done(r) => req[r].status = 404
          /\ req[r].chatId = 0 /\ req[r].msgKey = 0
          /\ ~req[r].wrote /\ ~req[r].emitted
    /\ \A i \in 1..Len(conversations) :
          {conversations[i].user_a, conversations[i].user_b} \subseteq {10, 20}
    /\ \A i \in 1..Len(chats) :
          {chats[i].user1_uid, chats[i].user2_uid} \subseteq Registered
    /\ \A k \in DOMAIN unread : k[1] \in Registered
    /\ \A c \in DOMAIN fbMessages :
          \A i \in 1..Len(fbMessages[c]) : fbMessages[c][i].senderUid \in Registered

\* The find-or-create calls for the pair of request q that had returned a
\* conversation when q arrived.
CompletedBefore(q) ==
    {r \in req[q].after :
        /\ req[r].op \in {"start", "send"} /\ req[r].status = 200
        /\ {req[r].uid, req[r].other} = {req[q].uid, req[q].other}}

\* C20: find-or-create is idempotent in sequence: once one has completed for
\* a pair, every later one for the pair (in either order) returns the same
\* conversation id and adds no record; a stored conversation is never
\* modified or deleted.
C20_FindOrCreateIdempotent ==
    [][/\ Len(conversations') >= Len(conversations)
       /\ \A i \in 1..Len(conversations) : conversations'[i] = conversations[i]
       /\ \A q \in AllReq :
             (req[q].op \in {"start", "send"} /\ CompletedBefore(q) # {})
             => /\ req[q].pc \in {"startInsert", "insertConv"}
                      => conversations' = conversations
                /\ (req'[q].pc = "done" /\ req'[q].status = 200)
                      => \A r \in CompletedBefore(q) :
                            req'[q].chatId = req'[r].chatId]_vars

\* Sends that write the counter k in this step.
IncrementingNow(k) ==
    {r \in AllReq : /\ req[r].op \in Sends /\ req[r].pc = "unreadSet"
                    /\ req'[r].wrote /\ k = <<req[r].other, req[r].chatId>>}

\* Reads that write the counter k in this step.
ResettingNow(k) ==
    {r \in AllReq : /\ req[r].op \in {"read", "oldRead"} /\ req[r].pc = "readSet"
                    /\ req'[r].pc # "readSet" /\ req'[r].failedAt = ""
                    /\ k = <<req[r].uid, req[r].chatId>>}

\* C21: the unread counter of (u, c) has exactly two writers: a send to u in c
\* raises it by exactly one and a read by u of c sets it to zero; no step of
\* any operation changes any other counter.
C21_CounterHasTwoWriters ==
    [][\A k \in DOMAIN unread \cup DOMAIN unread' :
          /\ IncrementingNow(k) # {} => UnreadVal(k)' = UnreadVal(k) + 1
          /\ ResettingNow(k) # {} => UnreadVal(k)' = 0
          /\ (IncrementingNow(k) = {} /\ ResettingNow(k) = {})
                => UnreadVal(k)' = UnreadVal(k)]_vars

Reads == {"read", "oldRead"}

\* C22: reset is idempotent: a read of a counter that is zero already, or
\* was never written, succeeds and leaves it zero, and a second reset in a
\* row changes nothing; a reset touches no other counter.
C22_ResetIsIdempotent ==
    [][\A r \in AllReq :
          LET k == <<req[r].uid, req[r].chatId>>
          IN /\ r \in ResettingNow(k)
                   => /\ UnreadVal(k)' = 0
                      /\ \A j \in (DOMAIN unread) \ {k} : unread'[j] = unread[j]
                      /\ (k \in DOMAIN unread /\ unread[k] = 0) => unread' = unread
             /\ (req'[r].op \in Reads /\ req'[r].pc = "done" /\ req'[r].failedAt = "")
                   => req'[r].status = 200]_vars

\* Two reads of a counter that no send ever wrote both succeeded, and the
\* counter is zero.
C22_Witness ==
    \E k \in DOMAIN unread :
        /\ unread[k] = 0 /\ EpochOf(k).resets = 2
        /\ \A r \in Req : req[r].op \in Reads /\ Done(r) /\ req[r].status = 200

\* s is a prefix of t.
IsPrefix(s, t) == Len(s) <= Len(t) /\ \A i \in 1..Len(s) : t[i] = s[i]

\* The places <<conversation, position>> of the logs of store f that hold
\* the message with push key k.
EntriesWithKey(f, k) ==
    {e \in (DOMAIN f) \X (1..(MaxReq + MaxLate)) :
        e[2] <= Len(f[e[1]]) /\ f[e[1]][e[2]].key = k}

\* C23: the message log is append-only: no step removes or changes a stored
\* message, a send adds one message to one conversation's log, and a list
\* result holds every message of every earlier list result of the conversation.
C23_LogIsAppendOnly ==
    [][/\ \A c \in DOMAIN fbMessages :
             c \in DOMAIN fbMessages' /\ IsPrefix(fbMessages[c], fbMessages'[c])
       /\ IsPrefix(pgMessages, pgMessages')
       /\ SumLen(fbMessages', DOMAIN fbMessages')
             <= SumLen(fbMessages, DOMAIN fbMessages) + 1
       /\ \A r \in AllReq :
             (req'[r].op \in Sends /\ req'[r].pc = "done" /\ req'[r].status = 200)
             => /\ Cardinality(EntriesWithKey(fbMessages', req'[r].msgKey)) = 1
                /\ \A e \in EntriesWithKey(fbMessages', req'[r].msgKey) :
                      e[1] = req'[r].chatId
       /\ \A l, k \in AllReq :
             (/\ req'[l].op = "list" /\ req'[k].op = "list"
              /\ req'[l].pc = "done" /\ req'[k].pc = "done"
              /\ req'[l].chatId = req'[k].chatId
              /\ l \in req'[k].after)
             => \A i \in 1..Len(req'[l].result) :
                   \E j \in 1..Len(req'[k].result) :
                       req'[k].result[j] = req'[l].result[i]]_vars

\* A send succeeded, a list returned its message, and a later list returned
\* the message again, unchanged.
C23_Witness ==
    \E l, k \in AllReq :
        /\ req[l].op = "list" /\ req[k].op = "list" /\ l \in req[k].after
        /\ Len(req[l].result) = 1
        /\ \E j \in 1..Len(req[k].result) : req[k].result[j] = req[l].result[1]
        /\ \E r \in Req : req[r].op = "send" /\ Done(r) /\ req[r].status = 200

\* C24: an admitted session is bound to one identity, the subject of its
\* token, for as long as it lives, and is in that identity's personal channel
\* from its admission until it closes; no session is ever in the personal
\* channel of another identity, whatever it asks to join or leave.
C24_OneIdentityOwnChannelOnly ==
    [][\A s \in Sock :
          /\ sockets'[s].st = "open"
                => /\ sockets'[s].userId \in Registered
                   /\ sockets'[s].userId = VerifyIdToken(sockets'[s].token)
                   /\ sockets'[s].userId \in sockets'[s].rooms
          /\ sockets'[s].rooms \cap Registered \subseteq {sockets'[s].userId}
          /\ sockets[s].st = "open"
                => /\ sockets'[s].userId = sockets[s].userId
                   /\ sockets'[s].st \in {"open", "closed"}]_vars

\* A session of u1 that asked to join "u2" is in the personal channel of u1
\* only, while a session of u2 is live.
C24_Witness ==
    \E s \in Sock :
        /\ sockets[s].st = "open" /\ sockets[s].userId = "u1"
        /\ "u2" \in sockets[s].joined /\ "u1" \notin sockets[s].joined
        /\ sockets[s].rooms = {"u1", ConvRoom("u2")}
        /\ \E q \in Sock : sockets[q].st = "open" /\ sockets[q].userId = "u2"

\* The rooms of the conversations a session asked to join and did not leave.
JoinedRooms(s) == {ConvRoom(c) : c \in sockets[s].joined}

\* C25: after any joins and leaves the conversation channels of a session are
\* those it joined and has not left since (a repeated join or a leave of an
\* unjoined channel changes nothing), zero or many of them; a join or leave
\* changes neither its personal channel nor any other session.
C25_ChannelsAreJoinedNotLeft ==
    [][\A s \in Sock :
          /\ sockets'[s].st = "open"
                => sockets'[s].rooms = PersonalRooms(sockets'[s].userId) \cup JoinedRooms(s)'
          /\ (/\ sockets[s].st = "open" /\ sockets'[s].st = "open"
              /\ sockets'[s].joined # sockets[s].joined)
                => \A q \in Sock \ {s} : sockets'[q] = sockets[q]]_vars

\* One session is in two conversation channels at once, another live
\* session is in none.
C25_Witness ==
    \E s, q \in Sock :
        /\ sockets[s].st = "open" /\ sockets[q].st = "open"
        /\ sockets[s].joined = {"1", "2"}
        /\ Cardinality(sockets[s].rooms) = 3
        /\ sockets[q].joined = {} /\ sockets[q].rooms = {sockets[q].userId}

\* C26: Closed is terminal: a session that disconnected is in no channel,
\* receives nothing that is dispatched afterwards and never becomes live
\* again; a reconnection of the same identity is another connection.
C26_ClosedIsTerminal ==
    [][\A s \in Sock :
          /\ sockets'[s].st = "closed" => sockets'[s].rooms = {}
          /\ sockets[s].st = "closed" => sockets'[s] = sockets[s]]_vars

\* A session of u2 closed; u2 connected again on another connection, which
\* got a message that the closed one did not get.
C26_Witness ==
    \E s, q \in Sock :
        /\ s # q /\ sockets[s].userId = "u2" /\ sockets[q].userId = "u2"
        /\ sockets[s].st = "closed" /\ sockets[q].st = "open"
        /\ \E i \in 1..Len(sockets[q].inbox) : sockets[q].inbox[i].type = "new_message"
        /\ \A i \in 1..Len(sockets[s].inbox) : sockets[s].inbox[i].type # "new_message"

\* C27: a connection that is admitted is put into the personal channel of its
\* identity and an "online" event for that identity goes to every other live
\* session; the connecting session does not get its own event.
C27_OnlineToEveryOtherSession ==
    [][\A s \in Sock :
          (sockets[s].st = "handshake" /\ sockets'[s].st = "open")
          => /\ sockets'[s].userId \in sockets'[s].rooms
             /\ sockets'[s].inbox = sockets[s].inbox
             /\ \A q \in Sock \ {s} :
                   IF sockets[q].st = "open"
                   THEN sockets'[q] =
                          [sockets[q] EXCEPT !.inbox =
                              Append(@, Event("user_online", 0, 0, sockets'[s].userId))]
                   ELSE sockets'[q] = sockets[q]]_vars

\* A second session was admitted: the first one was told, the new one holds
\* its personal channel and got nothing.
C27_Witness ==
    \E s, q \in Sock :
        /\ s # q /\ sockets[s].st = "open" /\ sockets[q].st = "open"
        /\ sockets[s].inbox = <<>> /\ sockets[s].userId \in sockets[s].rooms
        /\ sockets[q].inbox = <<Event("user_online", 0, 0, sockets[s].userId)>>

\* A session of the sender of request r has closed.
SenderDropped(r) ==
    \E s \in Sock : sockets[s].st = "closed" /\ sockets[s].userId = req[r].uid

\* The send r has answered 200, its message is in the log of its
\* conversation and the receiver's counter was written.
Persisted(r) ==
    /\ Done(r) /\ req[r].status = 200 /\ req[r].wrote
    /\ \E i \in 1..Len(Log(req[r].chatId)) : Log(req[r].chatId)[i].key = req[r].msgKey

\* C28: a disconnect of the sender's session while its send is in progress
\* does not cancel the send: the append and the increment complete, and the
\* message is in the lists that begin afterwards.
C28_DisconnectDoesNotCancelSend ==
    /\ [][(\E s \in Sock : sockets[s].st = "open" /\ sockets'[s].st = "closed")
          => UNCHANGED <<req, stores>>]_vars
    /\ \A r \in Req :
          (req[r].op = "send" /\ InProgress(r) /\ SenderDropped(r)) ~> Persisted(r)
    /\ [](\A r \in Req, l \in Listed :
             (req[r].op = "send" /\ r \in req[l].after /\ req[r].status = 200
              /\ req[l].chatId = req[r].chatId)
             => PosIn(req[l].result, req[r].msgKey) # 0)

\* The only session of u1 closed while u1's send was in progress; the send
\* answered 200 and a list that began afterwards returned its message.
C28_Witness ==
    \E r \in Req, l \in Listed :
        /\ req[r].op = "send" /\ Persisted(r) /\ SenderDropped(r)
        /\ \A s \in Sock : sockets[s].st # "open"
        /\ r \in req[l].after /\ PosIn(req[l].result, req[r].msgKey) # 0

\* The adapter's membership map: the sessions that are in a room.
Members(socks, ch) == {s \in Sock : ch \in socks[s].rooms}

\* Every room a session can be in.
AllRooms == Registered \cup {ConvRoom(c) : c \in Channels}

\* The members a room has when every mutation asked so far was applied once:
\* the live sessions whose identity it names or that joined it and did not
\* leave it.
MembersAsked(socks, ch) ==
    {s \in Sock : /\ socks[s].st = "open"
                  /\ \/ ch = socks[s].userId
                     \/ \E c \in socks[s].joined : ch = ConvRoom(c)}

\* C29: membership mutations of several sessions of one identity lose no
\* update: every step applies the mutation of one session to the map and
\* leaves the entries of the other sessions alone, so the map is always the
\* one obtained by applying every mutation once, in the order of the steps.
C29_NoMembershipUpdateLost ==
    /\ [][\E s \in Sock : \A q \in Sock \ {s} : sockets'[q].rooms = sockets[q].rooms]_vars
    /\ [](\A ch \in AllRooms : Members(sockets, ch) = MembersAsked(sockets, ch))

\* Two sessions of one identity are live with different conversation rooms,
\* each as it asked.
C29_Witness ==
    \E s, q \in Sock :
        /\ s # q /\ sockets[s].st = "open" /\ sockets[q].st = "open"
        /\ sockets[s].userId = "u1" /\ sockets[q].userId = "u1"
        /\ Members(sockets, "u1") = {s, q}
        /\ Members(sockets, ConvRoom("1")) = {s}
        /\ Members(sockets, ConvRoom("2")) = {q}

\* The sends whose "new_message" event is in the inbox of some session.
Dispatched ==
    {r \in Req : /\ req[r].op = "send"
                 /\ \E s \in Sock : \E i \in 1..Len(sockets[s].inbox) :
                       /\ sockets[s].inbox[i].type = "new_message"
                       /\ sockets[s].inbox[i].id = req[r].msgKey}

\* C30: within one send the append and the increment come before the
\* dispatch: whenever a session holds the "new_message" event of a message,
\* the message is in the log of the event's conversation and the counter
\* write of its send has completed, and a list of that conversation which the
\* receiver issues on receipt returns the message.
C30_DispatchedIsStoredAndListed ==
    /\ \A s \in Sock : \A i \in 1..Len(sockets[s].inbox) :
          sockets[s].inbox[i].type = "new_message"
          => /\ \E j \in 1..Len(Log(sockets[s].inbox[i].conversationId)) :
                   Log(sockets[s].inbox[i].conversationId)[j].key = sockets[s].inbox[i].id
             /\ \E r \in Dispatched :
                   req[r].msgKey = sockets[s].inbox[i].id /\ req[r].wrote
    /\ \A l \in AllReq : \A r \in Dispatched :
          (/\ req[l].op = "list" /\ Done(l)
           /\ r \in req[l].after
           /\ req[l].uid = req[r].other /\ req[l].chatId = req[r].chatId)
          => req[l].status = 200 /\ PosIn(req[l].result, req[r].msgKey) # 0

\* The participants of conversation c, as uids; empty when no row has id c.
Participants(c) ==
    UNION {{UidOfId(conversations[i].user_a), UidOfId(conversations[i].user_b)} :
             i \in {j \in 1..Len(conversations) : conversations[j].id = c}}

\* C31: a send appends to the log of conversation c and writes the counter
\* of (receiver, c) only if sender and receiver are exactly the two
\* participants of c, also when the client supplies conversationId.
C31_SendOnlyAmongParticipants ==
    /\ \A r \in Req :
          (req[r].op = "send" /\ req[r].msgKey # 0)
          => {req[r].uid, req[r].other} = Participants(req[r].chatId)
    /\ \A c \in DOMAIN fbMessages : \A i \in 1..Len(fbMessages[c]) :
          fbMessages[c][i].senderUid \in Participants(c)
    /\ \A k \in DOMAIN unread : k[1] \in Participants(k[2])

\* C32: a typing event or a read receipt for conversation c asked by u is
\* pushed only to sessions of the other participant of c and only when u is a
\* participant of c; a request by a non-participant or for an unknown
\* conversation pushes nothing.
C32_TypingAndSeenAmongParticipants ==
    \A s \in Sock : \A i \in 1..Len(sockets[s].inbox) :
        sockets[s].inbox[i].type \in {"user_typing", "messages_seen"}
        => /\ sockets[s].inbox[i].from \in Participants(sockets[s].inbox[i].conversationId)
           /\ sockets[s].userId \in Participants(sockets[s].inbox[i].conversationId)
           /\ sockets[s].userId # sockets[s].inbox[i].from

\* C33: the "new_message" and "notification" events of a send are in the
\* inbox of sessions of the receiver named in that send only, whatever rooms
\* the sessions of the sender or of a third identity have joined.
C33_SendEventsToReceiverOnly ==
    \A s \in Sock : \A i \in 1..Len(sockets[s].inbox) :
        sockets[s].inbox[i].type \in {"new_message", "notification"}
        => \E r \in Req :
              /\ req[r].op = "send" /\ req[r].emitted
              /\ req[r].other = sockets[s].userId
              /\ req[r].uid = sockets[s].inbox[i].from
              /\ req[r].chatId = sockets[s].inbox[i].conversationId

\* A device of u2 got the message of u1's send; a device of u4 that joined
\* the room of the conversation and a room named after u2 got neither event.
C33_Witness ==
    \E s, q \in Sock :
        /\ sockets[s].st = "open" /\ sockets[s].userId = "u2"
        /\ \E i \in 1..Len(sockets[s].inbox) : sockets[s].inbox[i].type = "new_message"
        /\ sockets[q].st = "open" /\ sockets[q].userId = "u4"
        /\ sockets[q].joined = {"1", "u2"}
        /\ \A i \in 1..Len(sockets[q].inbox) :
              sockets[q].inbox[i].type \notin {"new_message", "notification"}

\* The capture handler r invokes the provider in this step.
CallsCapture(r) == pay[r].pc = "capture" /\ pay'[r].pc # "capture"

\* C34: the held payment of a hire is captured at most once; a capture
\* request on a hire that is marked paid is answered 400 and does not invoke
\* the provider, also when capture requests run at the same time; paid
\* becomes true only after the provider's capture succeeded.
C34_CaptureOnceWhileUnpaid ==
    /\ [][\A r \in Req :
             /\ CallsCapture(r) => ~hires[pay[r].hireId].paid
             /\ (pay[r].op = "capture" /\ pay[r].pc = "payHire" /\ pay'[r] # pay[r]
                 /\ hires[1].paid)
                  => pay'[r].pc = "done" /\ pay'[r].status = 400 /\ ~pay'[r].called
             /\ (pay[r].pc # "markPaid" /\ pay'[r].pc = "markPaid")
                  => intents'[pay[r].intent].status = "succeeded"]_vars
    /\ [][\A h \in DOMAIN hires :
             (~hires[h].paid /\ hires'[h].paid)
             => \E r \in Req : pay[r].pc = "markPaid" /\ pay'[r].pc = "done"]_vars
    /\ [](\A i \in 1..Len(intents) : intents[i].captures <= 1)

\* The payment requests made by somebody who did not make the hire.
ByOthers ==
    {r \in Req : /\ pay[r].op # "none"
                 /\ pay[r].uid # UidOfId(hires[pay[r].hireId].hired_by_id)}

\* C35: create-intent, capture and refund act only for the identity that
\* made the hire: a request of another identity is answered 403 (404 when
\* the caller has no account), invokes nothing at the provider and changes
\* neither the hire nor any intent.
C35_OnlyThePayerActs ==
    /\ [](\A r \in ByOthers :
             /\ ~pay[r].called
             /\ pay[r].pc = "done"
                  => pay[r].status = (IF pay[r].uid \in Registered THEN 403 ELSE 404))
    /\ [][\A r \in ByOthers :
             pay'[r] # pay[r] => hires' = hires /\ intents' = intents]_vars

\* The stranger u4 asked to capture and to refund the held payment of u1's
\* hire: both requests got 403 and the hire and its intent are as they were.
C35_Witness ==
    \E r, q \in Req :
        /\ pay[r].uid = "u4" /\ pay[r].op = "capture" /\ pay[r].status = 403
        /\ pay[q].uid = "u4" /\ pay[q].op = "refund" /\ pay[q].status = 403
        /\ hires[1] = [hired_by_id |-> 10, payment_intent_id |-> 1, paid |-> FALSE]
        /\ intents = <<[status |-> "requires_capture", captures |-> 0,
                        refunded |-> FALSE]>>

\* The create-intent requests that were answered with a client secret.
Answered == {r \in Req : pay[r].pc = "done" /\ pay[r].status = 200 /\ pay[r].secret # 0}

\* C36: create-intent reuses the intent of a hire that still awaits payment:
\* repeated or concurrent requests for one hire leave at most one intent
\* awaiting payment, and payment_intent_id names the intent whose client
\* secret was returned last.
C36_OneIntentAwaitingPayment ==
    /\ Cardinality({i \in 1..Len(intents) : Reusable(intents[i].status)}) <= 1
    /\ \A r \in Answered :
          (\A q \in Answered : pay[q].order <= pay[r].order)
          => hires[pay[r].hireId].payment_intent_id = pay[r].secret

====
